---- MODULE Spec2Model ----
(***************************************************************************)
(* A model of the rgit indexer (src/src/database/indexer.rs) and of the    *)
(* RocksDB schema it writes (src/src/database/schema/*.rs).                *)
(*                                                                         *)
(* The Git side (repositories on disk, references, the commit graph) is    *)
(* the environment; the store is one variable per column family; the       *)
(* indexer is a sequential program whose position is kept in phase, queue, *)
(* cur, refq and upd.                                                      *)
(***************************************************************************)
EXTENDS Integers, Sequences, FiniteSets, TLC

VARIABLES
    disk,        \* path -> "ok" | "gone" | "broken": what gix::open finds
    tip,         \* path -> ref name -> object the reference points at (0: no such ref)
    ops,         \* number of environment changes made so far
    defaultCF,   \* default family: key -> value (holds "schema_version")
    repoCF,      \* "repository" family: path -> Repository record
    commitCF,    \* "commit" family: <<repo id, ref, seq>> -> Commit record
    countCF,     \* "commit_count" family: <<repo id, ref>> -> count
    tagCF,       \* "tag" family: <<repo id, name>> -> Tag record
    refCF,       \* "reference" family: repo id -> Heads
    treeCF,      \* "tree" family: git tree oid -> indexed_tree_id
    treeItemCF,  \* "tree_item" family: <<digest>> or <<digest, depth, path>> -> row
    phase,       \* position of the worker in indexer::run
    queue,       \* repositories left to visit in the current phase
    cur,         \* repository whose references are being indexed
    refq,        \* references of cur left to visit
    valid,       \* valid_references collected for cur
    upd,         \* locals of the running branch_index_update
    results,     \* what branch_index_update last returned for each ref
    visited,     \* the refs updated and the Heads replaced in the running cycle
    fails,       \* number of Git read failures so far
    dirty,       \* the Git side changed since the last cycle started
    quiet,       \* the running cycle started with no change since the previous one
    sched,       \* run_indexer: the wake channel, the wake-up task, the signals
    reply        \* the last answer CommitTree::fetch_latest gave a web request

gitVars   == <<disk, tip, ops>>
storeVars == <<defaultCF, repoCF, commitCF, countCF, tagCF, refCF, treeCF,
               treeItemCF>>
pcVars    == <<phase, queue, cur, refq, valid, upd>>
logVars   == <<results, visited, fails, dirty, quiet>>
vars      == <<disk, tip, ops, defaultCF, repoCF, commitCF, countCF, tagCF, refCF,
               treeCF, treeItemCF, phase, queue, cur, refq, valid, upd, results, visited,
               fails, dirty, quiet, sched, reply>>

----------------------------------------------------------------------------
(* Bounds of the model *)

\* revisions per write batch; stands for the 250 of revwalk.chunks(250)
ChunkLen == 2
\* environment changes (pushes, ref deletions, directory removals) per behaviour
MaxEnvOps == 1
\* Git read failures per behaviour
MaxFailures == 1

----------------------------------------------------------------------------
(* The Git side *)

Paths == {"a.git", "b.git"}
PathOrder == <<"a.git", "b.git">>

RefNames == {"refs/heads/main", "refs/tags/v1"}
RefOrder == <<"refs/heads/main", "refs/tags/v1">>

\* gix::refs::Category of a full reference name
Category(ref) ==
    CASE ref = "refs/heads/main" -> "LocalBranch"
      [] ref = "refs/tags/v1"    -> "Tag"
      [] ref = "refs/tags/v2"    -> "Tag"
      [] ref = "refs/tags/v3"    -> "Tag"
      [] OTHER                   -> "Other"

NoObject == 0
Commits == 1..6
\* annotated tag objects
TagObjects == {11}

\* parents of each commit, in the order the commit lists them
Parents(c) ==
    CASE c = 1 -> <<>>
      [] c = 2 -> <<1>>
      [] c = 3 -> <<2>>
      [] c = 4 -> <<3>>
      [] c = 5 -> <<1>>
      [] c = 6 -> <<2, 5>>

\* the object an annotated tag points at
TagTarget(t) == CASE t = 11 -> 2

\* Reference::peel_to_commit
PeelToCommit(o) == IF o \in TagObjects THEN TagTarget(o) ELSE o

\* Reference::peel_to_tag succeeds only for a reference to a tag object
PeelsToTag(o) == o \in TagObjects

\* the Git tree of each commit
TreeOf(c) ==
    CASE c = 1 -> "t0"
      [] c = 2 -> "t1"
      [] c = 3 -> "t2"
      [] c = 4 -> "t3"
      [] c = 5 -> "t0b"
      [] c = 6 -> "t3"

\* entries of each Git tree in breadth-first order: path, mode, depth (the
\* number of '/' in the path) and, for a submodule, the commit it pins.  t0
\* and t0b differ in the content of README only; t1 and t2 differ in the
\* commit of the submodule only.
TreeEntries(t) ==
    CASE t = "t0"  -> << [path |-> "README", mode |-> 33188, depth |-> 0, oid |-> 0] >>
      [] t = "t0b" -> << [path |-> "README", mode |-> 33188, depth |-> 0, oid |-> 0] >>
      [] t = "t1"  -> << [path |-> "README", mode |-> 33188, depth |-> 0, oid |-> 0],
                      [path |-> "vendor", mode |-> 57344, depth |-> 0, oid |-> 21] >>
      [] t = "t2"  -> << [path |-> "README", mode |-> 33188, depth |-> 0, oid |-> 0],
                      [path |-> "vendor", mode |-> 57344, depth |-> 0, oid |-> 22] >>
      [] t = "t3"  -> << [path |-> "README", mode |-> 33188, depth |-> 0, oid |-> 0],
                      [path |-> "src", mode |-> 16384, depth |-> 0, oid |-> 0],
                      [path |-> "srcs", mode |-> 16384, depth |-> 0, oid |-> 0],
                      [path |-> "src/lib", mode |-> 16384, depth |-> 1, oid |-> 0],
                      [path |-> "src/main.rs", mode |-> 33188, depth |-> 1, oid |-> 0],
                      [path |-> "srcs/a", mode |-> 33188, depth |-> 1, oid |-> 0],
                      [path |-> "src/lib/x", mode |-> 33188, depth |-> 2, oid |-> 0] >>

Min(a, b) == IF a < b THEN a ELSE b

\* a variant without the .rev(): the walk is kept newest first
ReverseOmitted(s) == s

RECURSIVE Reverse(_)
Reverse(s) == IF s = <<>> THEN <<>> ELSE Reverse(Tail(s)) \o <<Head(s)>>

SeqRange(s) == {s[k] : k \in 1..Len(s)}

RECURSIVE Dedup(_, _)
\* the elements of s not in seen, each once, in order
Dedup(s, seen) ==
    IF s = <<>> THEN <<>>
    ELSE IF Head(s) \in seen THEN Dedup(Tail(s), seen)
         ELSE <<Head(s)>> \o Dedup(Tail(s), seen \cup {Head(s)})

RECURSIVE BreadthFirst(_, _)
\* gix's default rev-walk order: pop the front, push its unseen parents
BreadthFirst(next, seen) ==
    IF next = <<>> THEN <<>>
    ELSE LET c    == Head(next)
             more == Dedup(Parents(c), seen)
         IN  <<c>> \o BreadthFirst(Tail(next) \o more, seen \cup SeqRange(more))

\* git_repository.rev_walk([tip]).all(): newest first
RevWalk(c) == BreadthFirst(<<c>>, {c})

----------------------------------------------------------------------------
(* Keys *)

RECURSIVE ShiftRight(_, _)
\* n >> (8 * bytes)
ShiftRight(n, bytes) == IF bytes = 0 THEN n ELSE ShiftRight(n \div 256, bytes - 1)

\* u64::to_be_bytes
BE8(n) == [k \in 1..8 |-> ShiftRight(n, 8 - k) % 256]

\* str::as_bytes of the reference names
RefBytes(ref) ==
    CASE ref = "refs/heads/main" ->
           <<114, 101, 102, 115, 47, 104, 101, 97, 100, 115, 47, 109, 97, 105, 110>>
      [] ref = "refs/tags/v1" ->
           <<114, 101, 102, 115, 47, 116, 97, 103, 115, 47, 118, 49>>
      [] ref = "refs/tags/v2" ->
           <<114, 101, 102, 115, 47, 116, 97, 103, 115, 47, 118, 50>>
      [] ref = "refs/tags/v3" ->
           <<114, 101, 102, 115, 47, 116, 97, 103, 115, 47, 118, 51>>
      [] ref = "a" -> <<97>>
      [] ref = "ab" -> <<97, 98>>
      [] ref = "a<00>b" -> <<97, 0, 98>>
      [] ref = "a<01>" -> <<97, 1>>

RECURSIVE LexLess(_, _)
\* the bytewise comparator of the store: a < b
LexLess(a, b) ==
    IF b = <<>> THEN FALSE
    ELSE IF a = <<>> THEN TRUE
    ELSE IF Head(a) # Head(b) THEN Head(a) < Head(b)
    ELSE LexLess(Tail(a), Tail(b))

\* the key lies in [from, to)
InRange(key, from, to) == ~LexLess(key, from) /\ LexLess(key, to)

\* a variant that ends the prefix with the reference name
CommitPrefixNoSeparator(id, ref) == BE8(id) \o RefBytes(ref)

\* CommitTree::new: repo id, reference name, a NUL
CommitPrefix(id, ref) == BE8(id) \o RefBytes(ref) \o <<0>>

\* CommitTree::insert: the prefix followed by the sequence number
CommitKeyBytes(k) == CommitPrefix(k[1], k[2]) \o BE8(k[3])

\* TagTree::insert: repo id followed by the tag's reference name
TagKeyBytes(k) == BE8(k[1]) \o RefBytes(k[2])

\* the bytes with the last one incremented, as u8 arithmetic that wraps
BumpLast(b) == [b EXCEPT ![Len(b)] = (b[Len(b)] + 1) % 256]

EmptyCF == [k \in {} |-> 0]

\* put_cf
Put(cf, key, value) ==
    [k \in (DOMAIN cf) \cup {key} |-> IF k = key THEN value ELSE cf[k]]

\* delete_cf
Delete(cf, key) == [k \in (DOMAIN cf) \ {key} |-> cf[k]]

\* a write batch applied to a family
Write(cf, batch) ==
    [k \in (DOMAIN cf) \cup (DOMAIN batch) |->
        IF k \in DOMAIN batch THEN batch[k] ELSE cf[k]]

\* delete_range_cf over [from, to) of the commit family
DeleteCommitRange(cf, from, to) ==
    [k \in {x \in DOMAIN cf : ~InRange(CommitKeyBytes(x), from, to)} |-> cf[k]]

\* delete_range_cf over [from, to) of the tag family
DeleteTagRange(cf, from, to) ==
    [k \in {x \in DOMAIN cf : ~InRange(TagKeyBytes(x), from, to)} |-> cf[k]]

----------------------------------------------------------------------------
(* CommitTree *)

\* CommitTree::len
CommitLen(counts, id, ref) ==
    IF <<id, ref>> \in DOMAIN counts THEN counts[<<id, ref>>] ELSE 0

NoCommitRow == [hash |-> NoObject, tree_id |-> 0]

\* a variant that reads the row at seq = len(), one past the last row
FetchLatestOnePastEnd(commits, counts, id, ref) ==
    LET seq == CommitLen(counts, id, ref)
    IN  IF <<id, ref, seq>> \in DOMAIN commits
        THEN commits[<<id, ref, seq>>] ELSE NoCommitRow

\* CommitTree::fetch_latest_one: the row at len().saturating_sub(1)
FetchLatestOne(commits, counts, id, ref) ==
    LET n   == CommitLen(counts, id, ref)
        seq == IF n = 0 THEN 0 ELSE n - 1
    IN  IF <<id, ref, seq>> \in DOMAIN commits
        THEN commits[<<id, ref, seq>>] ELSE NoCommitRow

\* the largest amount and offset a query asks for
MaxAmount == 3
MaxOffset == 5

\* u64::saturating_sub
SaturatingSub(a, b) == IF a > b THEN a - b ELSE 0

\* the prefix extractor of the commit family: the bytes before the first NUL
CommitPrefixExtractor(b) ==
    IF \E i \in 1..Len(b) : b[i] = 0
    THEN SubSeq(b, 1, (CHOOSE i \in 1..Len(b) :
                          b[i] = 0 /\ \A j \in 1..(i - 1) : b[j] # 0) - 1)
    ELSE b

RECURSIVE IterateFromStart(_)
\* a variant that walks the rows from the lowest key up
IterateFromStart(keys) ==
    IF keys = {} THEN <<>>
    ELSE LET first == CHOOSE k \in keys :
                          \A j \in keys : ~LexLess(CommitKeyBytes(j), CommitKeyBytes(k))
         IN  <<first>> \o IterateFromStart(keys \ {first})

RECURSIVE IterateFromEnd(_)
\* IteratorMode::End: the rows from the highest key down
IterateFromEnd(keys) ==
    IF keys = {} THEN <<>>
    ELSE LET last == CHOOSE k \in keys :
                         \A j \in keys : ~LexLess(CommitKeyBytes(k), CommitKeyBytes(j))
         IN  <<last>> \o IterateFromEnd(keys \ {last})

\* CommitTree::fetch_latest: the rows whose key lies in [start_key, end_key) and
\* shares the prefix of start_key, from the end
FetchLatest(commits, counts, id, ref, amount, offset) ==
    LET n     == CommitLen(counts, id, ref)
        hi    == SaturatingSub(n, offset)
        lo    == SaturatingSub(hi, amount)
        start == CommitPrefix(id, ref) \o BE8(lo)
        end   == CommitPrefix(id, ref) \o BE8(hi)
        hits  == {k \in DOMAIN commits :
                    /\ InRange(CommitKeyBytes(k), start, end)
                    /\ CommitPrefixExtractor(CommitKeyBytes(k))
                          = CommitPrefixExtractor(start)}
        order == IterateFromEnd(hits)
    IN  [i \in 1..Len(order) |-> commits[order[i]]]

\* CommitTree::drop_commits, first write: the range [prefix, prefix + 1)
DropCommitRange(commits, id, ref) ==
    DeleteCommitRange(commits, CommitPrefix(id, ref), BumpLast(CommitPrefix(id, ref)))

\* a variant of the second write that leaves the count in place
DropCommitCountKept(counts, id, ref) == counts

\* CommitTree::drop_commits, second write: the count
DropCommitCount(counts, id, ref) == Delete(counts, <<id, ref>>)

\* the sequence numbers of the commit rows of a ref
SeqsOf(commits, id, ref) ==
    {k[3] : k \in {x \in DOMAIN commits : x[1] = id /\ x[2] = ref}}

----------------------------------------------------------------------------
(* Tree indexing *)

\* a variant of the visitor that also feeds the entry's object id to the hasher
HashInputWithOid(t) ==
    [k \in 1..Len(TreeEntries(t)) |->
        <<TreeEntries(t)[k].path, TreeEntries(t)[k].mode, TreeEntries(t)[k].oid, t>>]

\* TreeHasherVisitor: the stream fed to the hasher, the path and the mode of
\* each entry in breadth-first order
HashInput(t) ==
    [k \in 1..Len(TreeEntries(t)) |->
        <<TreeEntries(t)[k].path, TreeEntries(t)[k].mode>>]

\* the Git trees of the repositories
Trees == <<"t0", "t0b", "t1", "t2", "t3">>

\* the streams the hasher is given, tree by tree
Shapes == [k \in 1..Len(Trees) |-> HashInput(Trees[k])]

\* Xxh3::digest: equal streams give equal digests, different streams
\* different ones
Digest(t) ==
    CHOOSE d \in 1..Len(Shapes) :
        /\ Shapes[d] = HashInput(t)
        /\ \A e \in 1..(d - 1) : Shapes[e] # HashInput(t)

\* a variant of the probe that never finds a row
TreeItemContainsNothing(items, d) == FALSE

\* TreeItem::contains: some row under the digest
TreeItemContains(items, d) == \E k \in DOMAIN items : k[1] = d

\* TreeItemKind from the entry mode: a tree, a submodule (EntryKind::Commit,
\* its url found in the submodules map), or a file
KindOf(mode) ==
    IF mode = 16384 THEN "Tree" ELSE IF mode = 57344 THEN "Submodule" ELSE "File"

\* the paths of the non-tree entries, which SortedTree is built from
SortedTreeOf(t) ==
    {TreeEntries(t)[k].path :
        k \in {j \in 1..Len(TreeEntries(t)) : TreeEntries(t)[j].mode # 16384}}

\* the tree_item rows index_tree puts in the batch for tree t, given the
\* rows already in the store
TreeItemBatch(items, t) ==
    IF TreeItemContains(items, Digest(t)) THEN EmptyCF
    ELSE LET d == Digest(t)
             es == TreeEntries(t)
             keys == {<<d, es[k].depth, es[k].path>> : k \in 1..Len(es)}
             row(k) == LET e == CHOOSE e \in SeqRange(es) : e.path = k[3]
                       IN  [mode |-> e.mode, kind |-> KindOf(e.mode), oid |-> e.oid]
         IN  [k \in keys \cup {<<d>>} |->
                IF k = <<d>> THEN [sorted |-> SortedTreeOf(t)] ELSE row(k)]

----------------------------------------------------------------------------
(* Tree item keys and TreeItem::find_prefix *)

\* the byte orders a target can have
Endians == {"little", "big"}

\* u64::to_ne_bytes on a target of byte order e
NE8(n, e) == IF e = "big" THEN BE8(n) ELSE Reverse(BE8(n))

\* the bytes of the paths; the empty path is the root
PathBytes(path) ==
    CASE path = "" -> <<>>
      [] path = "README" -> <<82, 69, 65, 68, 77, 69>>
      [] path = "vendor" -> <<118, 101, 110, 100, 111, 114>>
      [] path = "src" -> <<115, 114, 99>>
      [] path = "srcs" -> <<115, 114, 99, 115>>
      [] path = "src/lib" -> <<115, 114, 99, 47, 108, 105, 98>>
      [] path = "src/main.rs" -> <<115, 114, 99, 47, 109, 97, 105, 110, 46, 114, 115>>
      [] path = "srcs/a" -> <<115, 114, 99, 115, 47, 97>>
      [] path = "src/lib/x" -> <<115, 114, 99, 47, 108, 105, 98, 47, 120>>

\* memchr_iter(b'/', path).count()
SlashCount(b) == Cardinality({i \in 1..Len(b) : b[i] = 47})

\* a variant of the key of TreeItem::insert without the depth
TreeItemKeyNoDepth(k, e) ==
    IF Len(k) = 1 THEN NE8(k[1], e)
    ELSE NE8(k[1], e) \o PathBytes(k[3])

\* the key bytes of a row of the tree-item family: SortedTree::insert puts
\* the digest alone, TreeItem::insert the digest, the depth as a big-endian
\* usize and the path
TreeItemKeyBytes(k, e) ==
    IF Len(k) = 1 THEN NE8(k[1], e)
    ELSE NE8(k[1], e) \o BE8(SlashCount(PathBytes(k[3]))) \o PathBytes(k[3])

\* slice::starts_with
StartsWith(b, pre) == Len(pre) <= Len(b) /\ SubSeq(b, 1, Len(pre)) = pre

\* the key bytes of every row of the family
KeyBytesOf(items, e) == [k \in DOMAIN items |-> TreeItemKeyBytes(k, e)]

\* prefix_iterator_cf: the rows from the first key >= seek on, in key order
\* (kb gives the key bytes of the rows)
PrefixIterator(kb, seek) == {k \in DOMAIN kb : ~LexLess(kb[k], seek)}

\* take_while over the iterator: the rows before the first one whose key does
\* not start with the prefix
TakeWhile(rows, kb, pre) ==
    {k \in rows : \A j \in rows : ~LexLess(kb[k], kb[j]) => StartsWith(kb[j], pre)}

\* Option::None for the prefix argument
NoPrefix == "None"

\* the key find_prefix seeks to
SeekKey(d, prefix, e) ==
    IF prefix = NoPrefix THEN NE8(d, e)
    ELSE IF prefix = "" THEN NE8(d, e) \o BE8(0)
    ELSE NE8(d, e) \o BE8(SlashCount(PathBytes(prefix)) + 1)
             \o PathBytes(prefix) \o <<47>>

\* the prefix find_prefix compares the keys with in take_while
StopKey(d, prefix, e) ==
    IF prefix = NoPrefix THEN BE8(d) ELSE SeekKey(d, prefix, e)

\* TreeItem::find_prefix: the (path, item) pairs the iterator yields; slicing
\* a key shorter than the digest and the depth panics
FindPrefix(items, d, prefix, e) ==
    LET kb   == KeyBytesOf(items, e)
        hits == TakeWhile(PrefixIterator(kb, SeekKey(d, prefix, e)), kb,
                          StopKey(d, prefix, e))
    IN  IF \E k \in hits : Len(kb[k]) < 16
        THEN [panic |-> TRUE, entries |-> {}]
        ELSE [panic |-> FALSE, entries |-> {<<k[3], items[k]>> : k \in hits}]

----------------------------------------------------------------------------
(* Initial state: an empty store, the worker idle, repositories on disk *)

\* the ids RepositoryId::new can draw: one whose last byte is 0xFF, one not
IdPool == {1, 255}

\* the references of a repository when the program starts: none, or a branch
\* with two commits and an annotated tag
InitRefs ==
    { [r \in RefNames |-> NoObject],
      [r \in RefNames |-> IF Category(r) = "Tag" THEN 11 ELSE 2] }

\* what a push can make a reference point at
PushTargets(ref) == IF Category(ref) = "Tag" THEN Commits \cup TagObjects ELSE Commits

\* database::schema::SCHEMA_VERSION
SCHEMA_VERSION == "1"

SchemaKey == "schema_version"

\* the default family once open_db has returned a handle
Versioned == Put(EmptyCF, SchemaKey, SCHEMA_VERSION)

\* a variant that asks for a regeneration whatever the store holds
NeedsSchemaRegenAlways(db) == TRUE

\* needs_schema_regen is Some: a version is stored and differs from the compiled one
NeedsSchemaRegen(db) == SchemaKey \in DOMAIN db /\ db[SchemaKey] # SCHEMA_VERSION

\* a variant that leaves a missing version unwritten
StoreVersionSkipped(db) == db

\* the None arm of the version match writes the compiled version
StoreVersion(db) ==
    IF SchemaKey \in DOMAIN db THEN db ELSE Put(db, SchemaKey, SCHEMA_VERSION)

\* no request has been answered
NoReply == [id |-> 0, ref |-> "", amount |-> 0, offset |-> 0, rows |-> <<>>]

\* mpsc::channel(10): the capacity of the wake channel
WakeupCapacity == 10

\* the wake-up machinery once run_indexer has spawned the worker thread and the
\* wake-up task: nothing buffered, no signal pending, the task in its select.
\* owed and served are not state of the program: owed tells where the worker
\* was when a SIGHUP arrived that no cycle has started after yet, served tells
\* the same of the SIGHUP the last cycle start answered
SchedStart ==
    [interval |-> "duration", chan |-> 0, waker |-> "select", hup |-> FALSE,
     stage |-> "up", inflight |-> 0, owed |-> "no", served |-> "no"]

NoRepo == [path |-> "", id |-> 0]

\* predrop is not a local of the code: it remembers, for the forced pass, the
\* count the ref had before drop_commits
UpdIdle == [stage |-> "none", force |-> FALSE, latest |-> NoObject, walk |-> <<>>,
            tree_len |-> 0, seen |-> FALSE, i |-> 0, pos |-> 0, predrop |-> 0]

NoResults == [p \in Paths |-> [r \in RefNames |-> "none"]]

Init ==
    /\ disk = [p \in Paths |-> "ok"]
    /\ tip \in [Paths -> InitRefs]
    /\ ops = 0
    /\ defaultCF = Versioned
    /\ repoCF = EmptyCF
    /\ commitCF = EmptyCF
    /\ countCF = EmptyCF
    /\ tagCF = EmptyCF
    /\ refCF = EmptyCF
    /\ treeCF = EmptyCF
    /\ treeItemCF = EmptyCF
    /\ phase = "idle"
    /\ queue = <<>>
    /\ cur = NoRepo
    /\ refq = <<>>
    /\ valid = <<>>
    /\ upd = UpdIdle
    /\ results = NoResults
    /\ visited = {}
    /\ fails = 0
    /\ dirty = TRUE
    /\ quiet = FALSE
    /\ sched = SchedStart
    /\ reply = NoReply

----------------------------------------------------------------------------
(* The environment: Git changes between cycles *)

EnvStep == phase = "idle" /\ ops < MaxEnvOps

\* a push (fast-forward or forced) or the creation of a reference
Push(p, ref, o) ==
    /\ EnvStep
    /\ disk[p] = "ok"
    /\ o \in PushTargets(ref)
    /\ tip[p][ref] # o
    /\ tip' = [tip EXCEPT ![p][ref] = o]
    /\ ops' = ops + 1
    /\ dirty' = TRUE
    /\ UNCHANGED <<sched, reply, disk, storeVars, pcVars, results, visited, fails, quiet>>

\* a reference is deleted
DeleteRef(p, ref) ==
    /\ EnvStep
    /\ disk[p] = "ok"
    /\ tip[p][ref] # NoObject
    /\ tip' = [tip EXCEPT ![p][ref] = NoObject]
    /\ ops' = ops + 1
    /\ dirty' = TRUE
    /\ UNCHANGED <<sched, reply, disk, storeVars, pcVars, results, visited, fails, quiet>>

\* the repository's directory is removed from disk
RemoveRepo(p) ==
    /\ EnvStep
    /\ disk[p] = "ok"
    /\ disk' = [disk EXCEPT ![p] = "gone"]
    /\ tip' = [tip EXCEPT ![p] = [r \in RefNames |-> NoObject]]
    /\ ops' = ops + 1
    /\ dirty' = TRUE
    /\ UNCHANGED <<sched, reply, storeVars, pcVars, results, visited, fails, quiet>>

\* the directory stays but no longer opens as a repository
BreakRepo(p) ==
    /\ EnvStep
    /\ disk[p] = "ok"
    /\ disk' = [disk EXCEPT ![p] = "broken"]
    /\ ops' = ops + 1
    /\ dirty' = TRUE
    /\ UNCHANGED <<sched, reply, tip, storeVars, pcVars, results, visited, fails, quiet>>

----------------------------------------------------------------------------
(* indexer::run, update_repository_metadata *)

\* discover_repositories: the directories that open as repositories
Discovered == SelectSeq(PathOrder, LAMBDA p : disk[p] = "ok")

\* Repository::fetch_all: path-ordered (path, record) pairs
FetchAll(repos) ==
    LET here == SelectSeq(PathOrder, LAMBDA p : p \in DOMAIN repos)
    IN  [k \in 1..Len(here) |-> [path |-> here[k], id |-> repos[here[k]].id]]

\* the worker leaves blocking_recv and enters indexer::run
StartCycle ==
    /\ phase = "idle"
    /\ phase' = "meta"
    /\ queue' = Discovered
    /\ visited' = {}
    /\ quiet' = ~dirty
    /\ dirty' = FALSE
    /\ UNCHANGED <<sched, reply, gitVars, storeVars, cur, refq, valid, upd, results, fails>>

\* one iteration of update_repository_metadata for a repository already indexed
MetaRefresh ==
    /\ phase = "meta"
    /\ queue # <<>>
    /\ Head(queue) \in DOMAIN repoCF
    /\ repoCF' = Put(repoCF, Head(queue), [id |-> repoCF[Head(queue)].id])
    /\ queue' = Tail(queue)
    /\ UNCHANGED <<sched, reply, gitVars, defaultCF, commitCF, countCF, tagCF, refCF, treeCF,
                   treeItemCF,
                   phase, cur, refq, valid, upd, logVars>>

\* one iteration of update_repository_metadata for a newly discovered repository
MetaCreate ==
    /\ phase = "meta"
    /\ queue # <<>>
    /\ Head(queue) \notin DOMAIN repoCF
    /\ \E id \in IdPool \ {repoCF[p].id : p \in DOMAIN repoCF} :
          repoCF' = Put(repoCF, Head(queue), [id |-> id])
    /\ queue' = Tail(queue)
    /\ UNCHANGED <<sched, reply, gitVars, defaultCF, commitCF, countCF, tagCF, refCF, treeCF,
                   treeItemCF,
                   phase, cur, refq, valid, upd, logVars>>

\* one iteration of update_repository_metadata in which Repository::open
\* returns an error: logged, the repository is skipped
MetaReadError ==
    /\ phase = "meta"
    /\ queue # <<>>
    /\ Head(queue) \in DOMAIN repoCF
    /\ fails < MaxFailures
    /\ fails' = fails + 1
    /\ queue' = Tail(queue)
    /\ UNCHANGED <<sched, reply, gitVars, storeVars, phase, cur, refq, valid, upd, results,
                   visited, dirty, quiet>>

\* update_repository_reflog begins: Repository::fetch_all
MetaDone ==
    /\ phase = "meta"
    /\ queue = <<>>
    /\ phase' = "reflog"
    /\ queue' = FetchAll(repoCF)
    /\ UNCHANGED <<sched, reply, gitVars, storeVars, cur, refq, valid, upd, logVars>>

----------------------------------------------------------------------------
(* open_repo and ArchivedRepository::delete *)

\* ArchivedRepository::delete computes end_id by `+= 1` on the last byte of the
\* big-endian id.  When that byte is 0xFF a build with overflow checks panics;
\* a build without them wraps to an end key below the start key, which the
\* store either rejects (the first delete_range_cf fails and `?` returns) or
\* applies as an empty range.
DeleteOutcomes(id) ==
    IF BE8(id)[8] = 255 THEN {"panic", "rejected", "applied"} ELSE {"applied"}

\* the commit family after delete_range_cf(commit_cf, start_id, end_id)
DeleteRepoCommits(commits, id) ==
    DeleteCommitRange(commits, BE8(id), BumpLast(BE8(id)))

\* the tag family after delete_range_cf(tag_cf, start_id, end_id)
DeleteRepoTags(tags, id) ==
    DeleteTagRange(tags, BE8(id), BumpLast(BE8(id)))

\* a variant of open_repo that deletes on every failure to open
OpenRepoAnyError(rec, outcome) ==
    /\ disk[rec.path] # "ok"
    /\ outcome \in DeleteOutcomes(rec.id)
    /\ IF outcome = "applied"
       THEN /\ commitCF' = DeleteRepoCommits(commitCF, rec.id)
            /\ tagCF' = DeleteRepoTags(tagCF, rec.id)
            /\ repoCF' = Delete(repoCF, rec.path)
       ELSE UNCHANGED <<commitCF, tagCF, repoCF>>
    /\ IF outcome = "panic"
       THEN phase' = "crashed" /\ queue' = queue
       ELSE phase' = phase /\ queue' = Tail(queue)
    /\ UNCHANGED <<sched, reply, gitVars, defaultCF, countCF, refCF, treeCF, treeItemCF, cur, refq, valid,
                   upd, logVars>>

\* open_repo on a directory that is gone: the repository is deleted from the
\* store and the caller continues with the next repository
OpenRepoGone(rec, outcome) ==
    /\ disk[rec.path] = "gone"
    /\ outcome \in DeleteOutcomes(rec.id)
    /\ IF outcome = "applied"
       THEN /\ commitCF' = DeleteRepoCommits(commitCF, rec.id)
            /\ tagCF' = DeleteRepoTags(tagCF, rec.id)
            /\ repoCF' = Delete(repoCF, rec.path)
       ELSE UNCHANGED <<commitCF, tagCF, repoCF>>
    /\ IF outcome = "panic"
       THEN phase' = "crashed" /\ queue' = queue
       ELSE phase' = phase /\ queue' = Tail(queue)
    /\ UNCHANGED <<sched, reply, gitVars, defaultCF, countCF, refCF, treeCF, treeItemCF, cur, refq, valid,
                   upd, logVars>>

\* the references of a repository that the loop retains, in iteration order
RetainedRefs(p) ==
    SelectSeq(RefOrder,
              LAMBDA r : tip[p][r] # NoObject /\ Category(r) \in {"Tag", "LocalBranch"})

----------------------------------------------------------------------------
(* update_repository_reflog *)

InRepoLoop == phase = "reflog" /\ cur = NoRepo /\ queue # <<>>

\* open_repo succeeds: the references are enumerated
ReflogOpen ==
    /\ InRepoLoop
    /\ disk[Head(queue).path] = "ok"
    /\ cur' = Head(queue)
    /\ refq' = RetainedRefs(Head(queue).path)
    /\ valid' = <<>>
    /\ UNCHANGED <<sched, reply, gitVars, storeVars, phase, queue, upd, logVars>>

\* open_repo reports not-found
ReflogGone ==
    /\ InRepoLoop
    /\ \E outcome \in {"panic", "rejected", "applied"} :
          OpenRepoGone(Head(queue), outcome)

\* open_repo fails for another reason: skipped
ReflogSkip ==
    /\ InRepoLoop
    /\ disk[Head(queue).path] = "broken"
    /\ queue' = Tail(queue)
    /\ UNCHANGED <<sched, reply, gitVars, storeVars, phase, cur, refq, valid, upd, logVars>>

InRefLoop == phase = "reflog" /\ cur # NoRepo

\* the loop takes the next reference and calls branch_index_update(force = false)
NextRef ==
    /\ InRefLoop
    /\ upd.stage = "none"
    /\ refq # <<>>
    /\ valid' = Append(valid, Head(refq))
    /\ upd' = [UpdIdle EXCEPT !.stage = "peel"]
    /\ UNCHANGED <<sched, reply, gitVars, storeVars, phase, queue, cur, refq, logVars>>

\* a variant in which an error of one reference ends the loop over the
\* references of the repository
ReturnAborting(res) ==
    /\ results' = [results EXCEPT ![cur.path][Head(refq)] = res]
    /\ visited' = visited \cup {<<cur.path, Head(refq)>>}
    /\ refq' = IF res \in {"err", "err_forced"} THEN <<>> ELSE Tail(refq)
    /\ upd' = UpdIdle

\* branch_index_update returns to the loop
Return(res) ==
    /\ results' = [results EXCEPT ![cur.path][Head(refq)] = res]
    /\ visited' = visited \cup {<<cur.path, Head(refq)>>}
    /\ refq' = Tail(refq)
    /\ upd' = UpdIdle

\* forced pass, drop_commits: delete_range_cf on the commit family
BranchDropRange ==
    /\ InRefLoop
    /\ upd.stage = "drop_range"
    /\ commitCF' = DropCommitRange(commitCF, cur.id, Head(refq))
    /\ upd' = [upd EXCEPT !.stage = "drop_count"]
    /\ UNCHANGED <<sched, reply, gitVars, defaultCF, repoCF, countCF, tagCF, refCF, treeCF, treeItemCF,
                   phase, queue, cur, refq, valid, logVars>>

\* forced pass, drop_commits: delete_cf on the count
BranchDropCount ==
    /\ InRefLoop
    /\ upd.stage = "drop_count"
    /\ countCF' = DropCommitCount(countCF, cur.id, Head(refq))
    /\ upd' = [upd EXCEPT !.stage = "peel"]
    /\ UNCHANGED <<sched, reply, gitVars, defaultCF, repoCF, commitCF, tagCF, refCF, treeCF, treeItemCF,
                   phase, queue, cur, refq, valid, logVars>>

\* a variant in which the forced pass swallows its error
OutcomeSwallowed(ok, force) ==
    IF force THEN "ok_forced" ELSE (IF ok THEN "ok" ELSE "err")

\* the result string of a pass
Outcome(ok, force) ==
    IF ok THEN (IF force THEN "ok_forced" ELSE "ok")
    ELSE (IF force THEN "err_forced" ELSE "err")

\* a variant that uses the count read before drop_commits
TreeLenBeforeDrop(counts, id, ref) ==
    IF upd.force THEN upd.predrop ELSE CommitLen(counts, id, ref)

\* the number of commits the sweep starts numbering from
TreeLen(counts, id, ref) == CommitLen(counts, id, ref)

\* peel_to_commit, fetch_latest_one, the comparison with the live tip, the
\* rev-walk collected and reversed, commit_tree.len()
BranchPeel ==
    /\ InRefLoop
    /\ upd.stage = "peel"
    /\ LET ref    == Head(refq)
           commit == PeelToCommit(tip[cur.path][ref])
           latest == FetchLatestOne(commitCF, countCF, cur.id, ref)
       IN  IF latest # NoCommitRow /\ latest.hash = commit
           THEN /\ Return("same")
                /\ UNCHANGED <<sched, reply, gitVars, storeVars, phase, queue, cur, valid, fails,
                               dirty, quiet>>
           ELSE /\ upd' = [upd EXCEPT !.stage = "chunks",
                                      !.latest = latest.hash,
                                      !.walk = Reverse(RevWalk(commit)),
                                      !.tree_len = TreeLen(countCF, cur.id, ref)]
                /\ UNCHANGED <<sched, reply, gitVars, storeVars, phase, queue, cur, refq, valid,
                               logVars>>

\* a Git object cannot be read (peel_to_commit, rev?, rev.object(), find_tree,
\* index_tree): `?` returns the error and the batch being built is dropped
BranchFail ==
    /\ InRefLoop
    /\ \/ upd.stage = "peel"
       \/ upd.stage = "chunks" /\ upd.pos < Len(upd.walk)
    /\ fails < MaxFailures
    /\ fails' = fails + 1
    /\ Return(Outcome(FALSE, upd.force))
    /\ UNCHANGED <<sched, reply, gitVars, storeVars, phase, queue, cur, valid, dirty, quiet>>

RECURSIVE Sweep(_, _, _)
\* the inner loop over one chunk: revisions are skipped until the previously
\* indexed tip has been seen; the rest is emitted
Sweep(revs, seen, latest) ==
    IF revs = <<>> THEN [seen |-> seen, out |-> <<>>]
    ELSE IF ~seen /\ latest # NoObject
         THEN Sweep(Tail(revs), Head(revs) = latest, latest)
         ELSE LET rest == Sweep(Tail(revs), TRUE, latest)
              IN  [seen |-> TRUE, out |-> <<Head(revs)>> \o rest.out]

\* Commit::new
CommitRow(c) == [hash |-> c, tree_id |-> Digest(TreeOf(c))]

\* a variant that keys the k-th emitted revision at seq first + k
CommitBatchShifted(id, ref, first, out) ==
    [k \in {<<id, ref, first + j>> : j \in 1..Len(out)} |->
        CommitRow(out[k[3] - first])]

\* the commit rows of a batch: the k-th emitted revision at seq first + k - 1
CommitBatch(id, ref, first, out) ==
    [k \in {<<id, ref, first + j - 1>> : j \in 1..Len(out)} |->
        CommitRow(out[k[3] - first + 1])]

RECURSIVE TreeItemsFor(_, _)
\* the tree_item rows index_tree adds to the batch for the emitted revisions
TreeItemsFor(items, out) ==
    IF out = <<>> THEN EmptyCF
    ELSE Write(TreeItemBatch(items, TreeOf(Head(out))), TreeItemsFor(items, Tail(out)))

\* the tree rows of a batch: git tree oid -> digest
TreeBatch(out) ==
    [t \in {TreeOf(c) : c \in SeqRange(out)} |-> [indexed_tree_id |-> Digest(t)]]

\* one chunk of the sweep: its batch, with the count, is written atomically
BranchChunk ==
    /\ InRefLoop
    /\ upd.stage = "chunks"
    /\ upd.pos < Len(upd.walk)
    /\ LET ref   == Head(refq)
           last  == Min(upd.pos + ChunkLen, Len(upd.walk))
           sw    == Sweep(SubSeq(upd.walk, upd.pos + 1, last), upd.seen, upd.latest)
           first == upd.tree_len + upd.i
       IN  /\ commitCF' = Write(commitCF, CommitBatch(cur.id, ref, first, sw.out))
           /\ countCF' = Put(countCF, <<cur.id, ref>>, first + Len(sw.out))
           /\ treeItemCF' = Write(treeItemCF, TreeItemsFor(treeItemCF, sw.out))
           /\ treeCF' = Write(treeCF, TreeBatch(sw.out))
           /\ upd' = [upd EXCEPT !.pos = last, !.seen = sw.seen,
                                 !.i = upd.i + Len(sw.out)]
    /\ UNCHANGED <<sched, reply, gitVars, defaultCF, repoCF, tagCF, refCF, phase, queue, cur, refq, valid,
                   logVars>>

\* after the sweep: retry with force_reindex if the indexed tip was never seen
BranchFinish ==
    /\ InRefLoop
    /\ upd.stage = "chunks"
    /\ upd.pos >= Len(upd.walk)
    /\ IF ~upd.seen /\ ~upd.force
       THEN /\ upd' = [UpdIdle EXCEPT !.stage = "drop_range", !.force = TRUE,
                                         !.predrop = CommitLen(countCF, cur.id, Head(refq))]
            /\ UNCHANGED <<refq, results, visited>>
       ELSE Return(Outcome(TRUE, upd.force))
    /\ UNCHANGED <<sched, reply, gitVars, storeVars, phase, queue, cur, valid, fails, dirty, quiet>>

\* a variant that adds the new names to the stored list instead of replacing it
ReplaceHeadsMerging ==
    /\ InRefLoop
    /\ upd.stage = "none"
    /\ refq = <<>>
    /\ refCF' = Put(refCF, cur.id,
                    IF cur.id \in DOMAIN refCF
                    THEN refCF[cur.id] \o SelectSeq(valid,
                             LAMBDA r : r \notin SeqRange(refCF[cur.id]))
                    ELSE valid)
    /\ visited' = visited \cup {<<cur.path, "Heads">>}
    /\ cur' = NoRepo
    /\ queue' = Tail(queue)
    /\ valid' = <<>>
    /\ UNCHANGED <<sched, reply, gitVars, defaultCF, repoCF, commitCF, countCF, tagCF, treeCF,
                   treeItemCF, phase, refq, upd, results, fails, dirty, quiet>>

\* ArchivedRepository::replace_heads
ReplaceHeads ==
    /\ InRefLoop
    /\ upd.stage = "none"
    /\ refq = <<>>
    /\ refCF' = Put(refCF, cur.id, valid)
    /\ visited' = visited \cup {<<cur.path, "Heads">>}
    /\ cur' = NoRepo
    /\ queue' = Tail(queue)
    /\ valid' = <<>>
    /\ UNCHANGED <<sched, reply, gitVars, defaultCF, repoCF, commitCF, countCF, tagCF, treeCF, treeItemCF,
                   phase, refq, upd, results, fails, dirty, quiet>>

\* update_repository_tags begins: Repository::fetch_all
ReflogDone ==
    /\ phase = "reflog"
    /\ cur = NoRepo
    /\ queue = <<>>
    /\ phase' = "tags"
    /\ queue' = FetchAll(repoCF)
    /\ UNCHANGED <<sched, reply, gitVars, storeVars, cur, refq, valid, upd, logVars>>

----------------------------------------------------------------------------
(* update_repository_tags *)

InTagLoop == phase = "tags" /\ queue # <<>>

\* the references of category Tag present in Git
GitTags(p) == {r \in DOMAIN tip[p] : tip[p][r] # NoObject /\ Category(r) = "Tag"}

\* TagTree::list: the names found by the prefix iterator on the repo id
IndexedTags(tags, id) == {k[2] : k \in {x \in DOMAIN tags : x[1] = id}}

\* the tree a reference peels to
PeelToTree(o) == TreeOf(PeelToCommit(o))

RECURSIVE TagTreeItems(_, _, _)
\* tag_index_update writes one tree batch per tag, one after the other
TagTreeItems(items, p, names) ==
    IF names = {} THEN items
    ELSE LET n == CHOOSE n \in names : TRUE
         IN  TagTreeItems(Write(items, TreeItemBatch(items, PeelToTree(tip[p][n]))),
                          p, names \ {n})

\* Tag::new(tagger, tree_id)
TagRow(o) == [tagger |-> o, tree_id |-> Digest(PeelToTree(o))]

\* the tag rows tag_index_update inserts: only references that peel to a tag object
TagInserts(id, p, names) ==
    [k \in {<<id, n>> : n \in {m \in names : PeelsToTag(tip[p][m])}} |->
        TagRow(tip[p][k[2]])]

RECURSIVE DeleteAll(_, _)
\* tag_index_delete for each stale name
DeleteAll(cf, keys) ==
    IF keys = {} THEN cf
    ELSE LET k == CHOOSE k \in keys : TRUE IN DeleteAll(Delete(cf, k), keys \ {k})

\* tag_index_scan: the missing tags are indexed in the hash set's order; the
\* first error returns from the scan, and only a scan without error goes on to
\* remove the stale names.  done is the set of tags indexed before the error,
\* or all of them.
TagsScan ==
    /\ InTagLoop
    /\ disk[Head(queue).path] = "ok"
    /\ LET p       == Head(queue).path
           id      == Head(queue).id
           missing == GitTags(p) \ IndexedTags(tagCF, id)
           stale   == IndexedTags(tagCF, id) \ GitTags(p)
       IN  \E done \in SUBSET missing :
              /\ done # missing => fails < MaxFailures
              /\ fails' = IF done # missing THEN fails + 1 ELSE fails
              /\ treeItemCF' = TagTreeItems(treeItemCF, p, done)
              /\ treeCF' = Write(treeCF,
                                 [t \in {PeelToTree(tip[p][n]) : n \in done} |->
                                     [indexed_tree_id |-> Digest(t)]])
              /\ tagCF' = IF done = missing
                          THEN DeleteAll(Write(tagCF, TagInserts(id, p, done)),
                                         {<<id, n>> : n \in stale})
                          ELSE Write(tagCF, TagInserts(id, p, done))
    /\ queue' = Tail(queue)
    /\ UNCHANGED <<sched, reply, gitVars, defaultCF, repoCF, commitCF, countCF, refCF, phase, cur, refq,
                   valid, upd, results, visited, dirty, quiet>>

\* open_repo reports not-found
TagsGone ==
    /\ InTagLoop
    /\ \E outcome \in {"panic", "rejected", "applied"} :
          OpenRepoGone(Head(queue), outcome)

\* open_repo fails for another reason: skipped
TagsSkip ==
    /\ InTagLoop
    /\ disk[Head(queue).path] = "broken"
    /\ queue' = Tail(queue)
    /\ UNCHANGED <<sched, reply, gitVars, storeVars, phase, cur, refq, valid, upd, logVars>>

\* the tag phase is over: db.flush()
TagsDone ==
    /\ phase = "tags"
    /\ queue = <<>>
    /\ phase' = "flush"
    /\ UNCHANGED <<sched, reply, gitVars, storeVars, queue, cur, refq, valid, upd, logVars>>

\* indexer::run returns and the worker blocks on the wake channel
EndCycle ==
    /\ phase = "flush"
    /\ phase' = "idle"
    /\ UNCHANGED <<sched, reply, gitVars, storeVars, queue, cur, refq, valid, upd, logVars>>

----------------------------------------------------------------------------

Next ==
    \/ \E p \in Paths, ref \in RefNames, o \in Commits \cup TagObjects : Push(p, ref, o)
    \/ \E p \in Paths, ref \in RefNames : DeleteRef(p, ref)
    \/ \E p \in Paths : RemoveRepo(p)
    \/ \E p \in Paths : BreakRepo(p)
    \/ StartCycle
    \/ MetaRefresh
    \/ MetaCreate
    \/ MetaReadError
    \/ MetaDone
    \/ ReflogOpen
    \/ ReflogGone
    \/ ReflogSkip
    \/ NextRef
    \/ BranchDropRange
    \/ BranchDropCount
    \/ BranchPeel
    \/ BranchFail
    \/ BranchChunk
    \/ BranchFinish
    \/ ReplaceHeads
    \/ ReflogDone
    \/ TagsScan
    \/ TagsGone
    \/ TagsSkip
    \/ TagsDone
    \/ EndCycle

Spec == Init /\ [][Next]_vars

----------------------------------------------------------------------------
(* Startup: open_db *)

\* the store as a process may find it at startup: each family empty or holding
\* rows an earlier run wrote, and the version key absent, current, or other
PriorVersions == {"0", "1", "10", ""}

PriorDefault == {EmptyCF} \cup {Put(EmptyCF, SchemaKey, v) : v \in PriorVersions}

PriorRepo == Put(EmptyCF, "a.git", [id |-> 1])

PriorCommits == CommitBatch(1, "refs/heads/main", 0, <<2, 1>>)

PriorCount == Put(EmptyCF, <<1, "refs/heads/main">>, 2)

PriorTags == Put(EmptyCF, <<1, "refs/tags/v1">>, TagRow(11))

PriorHeads == Put(EmptyCF, 1, RefOrder)

PriorTrees == TreeBatch(<<2, 1>>)

PriorTreeItems == TreeItemsFor(EmptyCF, <<2, 1>>)

\* the process has not opened the store yet
InitOpenDb ==
    /\ disk = [p \in Paths |-> "ok"]
    /\ tip = [p \in Paths |-> [r \in RefNames |-> NoObject]]
    /\ ops = 0
    /\ defaultCF \in PriorDefault
    /\ repoCF \in {EmptyCF, PriorRepo}
    /\ commitCF \in {EmptyCF, PriorCommits}
    /\ countCF \in {EmptyCF, PriorCount}
    /\ tagCF \in {EmptyCF, PriorTags}
    /\ refCF \in {EmptyCF, PriorHeads}
    /\ treeCF \in {EmptyCF, PriorTrees}
    /\ treeItemCF \in {EmptyCF, PriorTreeItems}
    /\ phase = "closed"
    /\ queue = <<>>
    /\ cur = NoRepo
    /\ refq = <<>>
    /\ valid = <<>>
    /\ upd = UpdIdle
    /\ results = NoResults
    /\ visited = {}
    /\ fails = 0
    /\ dirty = TRUE
    /\ quiet = FALSE
    /\ sched = SchedStart
    /\ reply = NoReply

\* DB::open_cf_with_opts, with create_if_missing, at the top of the loop
OpenDbOpen ==
    /\ phase = "closed"
    /\ phase' = "opened"
    /\ UNCHANGED <<sched, reply, gitVars, storeVars, queue, cur, refq, valid, upd, logVars>>

\* the version read: a missing key is written and the handle returned, an equal
\* one returns the handle, any other asks for the store to be regenerated
OpenDbVersion ==
    /\ phase = "opened"
    /\ defaultCF' = StoreVersion(defaultCF)
    /\ phase' = IF NeedsSchemaRegen(defaultCF) THEN "regen" ELSE "idle"
    /\ UNCHANGED <<sched, reply, gitVars, repoCF, commitCF, countCF, tagCF, refCF, treeCF,
                   treeItemCF, queue, cur, refq, valid, upd, logVars>>

\* drop(db) and DB::destroy: every family of the store is gone, then the loop
\* opens the store again
OpenDbDestroy ==
    /\ phase = "regen"
    /\ defaultCF' = EmptyCF
    /\ repoCF' = EmptyCF
    /\ commitCF' = EmptyCF
    /\ countCF' = EmptyCF
    /\ tagCF' = EmptyCF
    /\ refCF' = EmptyCF
    /\ treeCF' = EmptyCF
    /\ treeItemCF' = EmptyCF
    /\ phase' = "closed"
    /\ UNCHANGED <<sched, reply, gitVars, queue, cur, refq, valid, upd, logVars>>

\* an open, get, put or destroy that reports an error: open_db returns it
OpenDbError ==
    /\ phase \in {"closed", "opened", "regen"}
    /\ fails < MaxFailures
    /\ fails' = fails + 1
    /\ phase' = "failed"
    /\ UNCHANGED <<sched, reply, gitVars, storeVars, queue, cur, refq, valid, upd, results,
                   visited, dirty, quiet>>

NextOpenDb ==
    \/ OpenDbOpen
    \/ OpenDbVersion
    \/ OpenDbDestroy
    \/ OpenDbError

SpecOpenDb == InitOpenDb /\ [][NextOpenDb]_vars

----------------------------------------------------------------------------
(* CommitTree::drop_commits on reference names given as bytes *)

\* names a caller of CommitTree::new can pass: one that is a byte-prefix of
\* another, one that continues it with a NUL, one that continues it with 0x01
DropNames == {"a", "ab", "a<00>b", "a<01>"}

DropPairs == IdPool \X DropNames

\* one commit row at seq 0 and a count of 1 for each of the pairs
RowsFor(pairs) == [k \in {<<q[1], q[2], 0>> : q \in pairs} |-> CommitRow(1)]

CountsFor(pairs) == [k \in pairs |-> 1]

\* a store with commits under some of the pairs, and a CommitTree for one pair
InitDropCommits ==
    /\ disk = [p \in Paths |-> "ok"]
    /\ tip = [p \in Paths |-> [r \in RefNames |-> NoObject]]
    /\ ops = 0
    /\ defaultCF = Versioned
    /\ repoCF = EmptyCF
    /\ \E pairs \in SUBSET DropPairs :
          commitCF = RowsFor(pairs) /\ countCF = CountsFor(pairs)
    /\ tagCF = EmptyCF
    /\ refCF = EmptyCF
    /\ treeCF = EmptyCF
    /\ treeItemCF = EmptyCF
    /\ phase = "drop"
    /\ queue = <<>>
    /\ \E id \in IdPool : cur = [path |-> "a.git", id |-> id]
    /\ \E ref \in DropNames : refq = <<ref>>
    /\ valid = <<>>
    /\ upd = UpdIdle
    /\ results = NoResults
    /\ visited = {}
    /\ fails = 0
    /\ dirty = TRUE
    /\ quiet = FALSE
    /\ sched = SchedStart
    /\ reply = NoReply

\* CommitTree::drop_commits for the pair: the range delete, then the count
DropCommitsCall ==
    /\ phase = "drop"
    /\ commitCF' = DropCommitRange(commitCF, cur.id, Head(refq))
    /\ countCF' = DropCommitCount(countCF, cur.id, Head(refq))
    /\ upd' = [upd EXCEPT !.predrop = CommitLen(countCF, cur.id, Head(refq))]
    /\ phase' = "dropped"
    /\ UNCHANGED <<sched, reply, gitVars, defaultCF, repoCF, tagCF, refCF, treeCF, treeItemCF,
                   queue, cur, refq, valid, logVars>>

NextDropCommits == DropCommitsCall

SpecDropCommits == InitDropCommits /\ [][NextDropCommits]_vars

----------------------------------------------------------------------------
(* Restart after a crash that lost batches written without WAL *)

\* the repository indexed before the crash and the tips of its references
CrashPath == "a.git"

CrashTips == [r \in RefNames |-> IF Category(r) = "Tag" THEN 11 ELSE 4]

\* the walk branch_index_update ingested for the reference, oldest first
IngestedWalk(r) == Reverse(RevWalk(PeelToCommit(CrashTips[r])))

\* the numbers of commits a family can be left holding for the reference: the
\* chunks are written in order, each family loses the batches after some point
KeptLengths(r) ==
    {n \in 0..Len(IngestedWalk(r)) : n = Len(IngestedWalk(r)) \/ n % ChunkLen = 0}

\* the longest of the ingested walks
LongestWalk == Len(IngestedWalk("refs/heads/main"))

\* the commit rows of the first n[r] commits of each reference r
KeptRows(id, n) ==
    [k \in {x \in {<<id, r, j>> : r \in RefNames, j \in 0..(LongestWalk - 1)} :
                x[3] < n[x[2]]} |->
        CommitRow(IngestedWalk(k[2])[k[3] + 1])]

\* the count of each reference as of the last count its family kept
KeptCounts(id, n) == [k \in {<<id, r>> : r \in {x \in RefNames : n[x] > 0}} |-> n[k[2]]]

\* the process restarts: the rows written with the WAL are all there, the commit
\* and the count families each hold what they had flushed, and so do the tree
\* families
InitCrash ==
    /\ disk = [p \in Paths |-> "ok"]
    /\ tip = [p \in Paths |->
                IF p = CrashPath THEN CrashTips ELSE [r \in RefNames |-> NoObject]]
    /\ ops = MaxEnvOps
    /\ defaultCF = Versioned
    /\ \E id \in IdPool :
          /\ repoCF = [p \in Paths |->
                          IF p = CrashPath THEN [id |-> id]
                          ELSE [id |-> CHOOSE i \in IdPool : i # id]]
          /\ \E n \in [RefNames -> 0..LongestWalk] :
                /\ \A r \in RefNames : n[r] \in KeptLengths(r)
                /\ commitCF = KeptRows(id, n)
          /\ \E c \in [RefNames -> 0..LongestWalk] :
                /\ \A r \in RefNames : c[r] \in KeptLengths(r)
                /\ countCF = KeptCounts(id, c)
          /\ tagCF = Put(EmptyCF, <<id, "refs/tags/v1">>, TagRow(CrashTips["refs/tags/v1"]))
          /\ refCF = Put(EmptyCF, id, RefOrder)
    /\ treeCF \in {EmptyCF, TreeBatch(IngestedWalk("refs/heads/main"))}
    /\ treeItemCF \in {EmptyCF, TreeItemsFor(EmptyCF, IngestedWalk("refs/heads/main"))}
    /\ phase = "idle"
    /\ queue = <<>>
    /\ cur = NoRepo
    /\ refq = <<>>
    /\ valid = <<>>
    /\ upd = UpdIdle
    /\ results = NoResults
    /\ visited = {}
    /\ fails = 0
    /\ dirty = TRUE
    /\ quiet = FALSE
    /\ sched = SchedStart
    /\ reply = NoReply

\* the cycles after the restart, Git unchanged and readable
NextCrash ==
    \/ StartCycle
    \/ MetaRefresh
    \/ MetaDone
    \/ ReflogOpen
    \/ NextRef
    \/ BranchPeel
    \/ BranchChunk
    \/ BranchFinish
    \/ ReplaceHeads
    \/ ReflogDone
    \/ TagsScan
    \/ TagsDone
    \/ EndCycle

SpecCrash == InitCrash /\ [][NextCrash]_vars

----------------------------------------------------------------------------
(* run_indexer and the shutdown in main *)

\* --refresh-interval: never, or a duration
Intervals == {"never", "duration"}

\* the worker thread has entered indexer::run for its first cycle; the cycle
\* itself is one step here
InitSched ==
    /\ disk = [p \in Paths |-> "ok"]
    /\ tip = [p \in Paths |-> [r \in RefNames |-> NoObject]]
    /\ ops = 0
    /\ defaultCF = Versioned
    /\ repoCF = EmptyCF
    /\ commitCF = EmptyCF
    /\ countCF = EmptyCF
    /\ tagCF = EmptyCF
    /\ refCF = EmptyCF
    /\ treeCF = EmptyCF
    /\ treeItemCF = EmptyCF
    /\ phase = "cycle"
    /\ queue = <<>>
    /\ cur = NoRepo
    /\ refq = <<>>
    /\ valid = <<>>
    /\ upd = UpdIdle
    /\ results = NoResults
    /\ visited = {}
    /\ fails = 0
    /\ dirty = TRUE
    /\ quiet = FALSE
    /\ sched \in {[SchedStart EXCEPT !.inflight = 1, !.interval = iv] : iv \in Intervals}
    /\ reply = NoReply

SchedFrame ==
    UNCHANGED <<reply, gitVars, storeVars, queue, cur, refq, valid, upd, logVars>>

\* the process has not exited
Alive == sched.stage # "exited"

\* the worker thread is in its loop
WorkerAlive == phase \in {"idle", "cycle"}

\* a variant in which a wake-up starts a cycle whatever the worker is doing
WorkerFreeAlways(ph) == ph \in {"idle", "cycle"}

\* the worker thread is blocked in blocking_recv
WorkerFree(ph) == ph = "idle"

\* a SIGHUP is delivered to the process: the signal stream keeps one pending
\* notification however many arrive
Sighup ==
    /\ sched.stage = "up"
    /\ sched' = [sched EXCEPT !.hup = TRUE,
                              !.owed = IF WorkerAlive THEN phase ELSE @]
    /\ UNCHANGED phase
    /\ SchedFrame

\* a variant in which the wake-up task takes the signal and sends nothing
WakerSelectHupDropped ==
    /\ Alive
    /\ sched.waker = "select"
    /\ sched.hup
    /\ sched' = [sched EXCEPT !.hup = FALSE]
    /\ UNCHANGED phase
    /\ SchedFrame

\* select!: sighup.recv() completes
WakerSelectHup ==
    /\ Alive
    /\ sched.waker = "select"
    /\ sched.hup
    /\ sched' = [sched EXCEPT !.hup = FALSE, !.waker = "send"]
    /\ UNCHANGED phase
    /\ SchedFrame

\* select!: the sleeper completes; with `never` it is pending for ever
WakerSelectTimer ==
    /\ Alive
    /\ sched.waker = "select"
    /\ sched.interval = "duration"
    /\ sched' = [sched EXCEPT !.waker = "send"]
    /\ UNCHANGED phase
    /\ SchedFrame

\* indexer_wakeup_send.send(()).await: waits for room in the channel; with the
\* receiver gone it returns an error that is logged
WakerSend ==
    /\ Alive
    /\ sched.waker = "send"
    /\ IF WorkerAlive
       THEN /\ sched.chan < WakeupCapacity
            /\ sched' = [sched EXCEPT !.chan = @ + 1, !.waker = "select"]
       ELSE sched' = [sched EXCEPT !.waker = "select"]
    /\ UNCHANGED phase
    /\ SchedFrame

\* blocking_recv returns a wake-up, buffered ones also after the sender is
\* gone, and the loop runs the next cycle
WorkerRecv ==
    /\ Alive
    /\ WorkerFree(phase)
    /\ sched.chan > 0
    /\ sched.inflight < WakeupCapacity
    /\ phase' = "cycle"
    /\ sched' = [sched EXCEPT !.chan = @ - 1, !.inflight = @ + 1,
                              !.owed = "no", !.served = sched.owed]
    /\ SchedFrame

\* blocking_recv returns None: the channel is empty and the sender dropped
WorkerClosed ==
    /\ Alive
    /\ phase = "idle"
    /\ sched.chan = 0
    /\ sched.waker = "gone"
    /\ phase' = "exited"
    /\ UNCHANGED sched
    /\ SchedFrame

\* indexer::run returns
CycleEnd ==
    /\ Alive
    /\ phase = "cycle"
    /\ phase' = "idle"
    /\ sched' = [sched EXCEPT !.inflight = @ - 1]
    /\ SchedFrame

\* indexer::run panics and the worker thread dies, its receiver with it
WorkerPanic ==
    /\ Alive
    /\ phase = "cycle"
    /\ phase' = "dead"
    /\ sched' = [sched EXCEPT !.inflight = @ - 1, !.chan = 0]
    /\ SchedFrame

\* main's select!: ctrl_c completes and main returns Ok
CtrlC ==
    /\ sched.stage = "up"
    /\ sched' = [sched EXCEPT !.stage = "stopping"]
    /\ UNCHANGED phase
    /\ SchedFrame

\* the runtime is dropped: the wake-up task is cancelled and its sender dropped
RuntimeDrop ==
    /\ sched.stage = "stopping"
    /\ sched' = [sched EXCEPT !.stage = "closed", !.waker = "gone"]
    /\ UNCHANGED phase
    /\ SchedFrame

\* main has returned: the process exits, whatever the worker thread is doing
ProcessExit ==
    /\ sched.stage = "closed"
    /\ sched' = [sched EXCEPT !.stage = "exited"]
    /\ UNCHANGED phase
    /\ SchedFrame

NextSched ==
    \/ Sighup
    \/ WakerSelectHup
    \/ WakerSelectTimer
    \/ WakerSend
    \/ WorkerRecv
    \/ WorkerClosed
    \/ CycleEnd
    \/ WorkerPanic
    \/ CtrlC
    \/ RuntimeDrop
    \/ ProcessExit

SpecSched == InitSched /\ [][NextSched]_vars

\* the tasks and the worker thread are scheduled, and a cycle comes to an end
SpecSchedFair ==
    /\ SpecSched
    /\ WF_vars(WakerSelectHup)
    /\ WF_vars(WakerSend)
    /\ WF_vars(WorkerRecv)
    /\ WF_vars(CycleEnd)

----------------------------------------------------------------------------
(* Web requests that read the commit log *)

\* what a reference can hold when a request reads it: nothing, a short or a
\* long history with its count, or a count whose rows are gone
LogShapes == {<<0, 0>>, <<2, 2>>, <<4, 4>>, <<0, 4>>}

LogPairs == IdPool \X RefNames

\* the rows and counts of the store in which pair q holds shape[q]
LogRows(shape) ==
    [k \in {x \in {<<q[1], q[2], j>> : q \in LogPairs, j \in 0..(LongestWalk - 1)} :
                x[3] < shape[<<x[1], x[2]>>][1]} |->
        CommitRow(IngestedWalk("refs/heads/main")[k[3] + 1])]

LogCounts(shape) ==
    [k \in {q \in LogPairs : shape[q][2] > 0} |-> shape[k][2]]

\* the indexer is idle and the web layer serves requests
InitFetch ==
    /\ disk = [p \in Paths |-> "ok"]
    /\ tip = [p \in Paths |-> [r \in RefNames |-> NoObject]]
    /\ ops = 0
    /\ defaultCF = Versioned
    /\ repoCF = EmptyCF
    /\ \E shape \in [LogPairs -> LogShapes] :
          commitCF = LogRows(shape) /\ countCF = LogCounts(shape)
    /\ tagCF = EmptyCF
    /\ refCF = EmptyCF
    /\ treeCF = EmptyCF
    /\ treeItemCF = EmptyCF
    /\ phase = "idle"
    /\ queue = <<>>
    /\ cur = NoRepo
    /\ refq = <<>>
    /\ valid = <<>>
    /\ upd = UpdIdle
    /\ results = NoResults
    /\ visited = {}
    /\ fails = 0
    /\ dirty = TRUE
    /\ quiet = FALSE
    /\ sched = SchedStart
    /\ reply = NoReply

\* a request calls fetch_latest(amount, offset) on the commit tree of a
\* reference; the call changes no state, so one request per behaviour shows all
FetchLatestCall(id, ref, amount, offset) ==
    /\ reply = NoReply
    /\ reply' = [id |-> id, ref |-> ref, amount |-> amount, offset |-> offset,
                 rows |-> FetchLatest(commitCF, countCF, id, ref, amount, offset)]
    /\ UNCHANGED <<sched, gitVars, storeVars, pcVars, logVars>>

NextFetch ==
    \E id \in IdPool, ref \in RefNames, amount \in 0..MaxAmount, offset \in 0..MaxOffset :
        FetchLatestCall(id, ref, amount, offset)

SpecFetch == InitFetch /\ [][NextFetch]_vars

----------------------------------------------------------------------------
(* The tag scan of a repository with several tags *)

TagNames == {"refs/tags/v1", "refs/tags/v2", "refs/tags/v3"}

\* what a tag reference points at: nothing, an annotated tag, a commit
TagTips == [TagNames -> {NoObject, 11, 2}]

\* the tag phase reaches the repository: any of its tags may be in Git, and
\* any may have been indexed by an earlier cycle
InitTags ==
    /\ disk = [p \in Paths |-> "ok"]
    /\ \E t \in TagTips :
          tip = [p \in Paths |->
                    IF p = CrashPath
                    THEN [r \in RefNames \cup TagNames |->
                             IF r \in TagNames THEN t[r] ELSE NoObject]
                    ELSE [r \in RefNames |-> NoObject]]
    /\ ops = MaxEnvOps
    /\ defaultCF = Versioned
    /\ \E id \in IdPool :
          /\ repoCF = Put(EmptyCF, CrashPath, [id |-> id])
          /\ queue = <<[path |-> CrashPath, id |-> id]>>
          /\ refCF = Put(EmptyCF, id, <<>>)
          /\ \E indexed \in SUBSET TagNames :
                tagCF = [k \in {<<id, n>> : n \in indexed} |-> TagRow(11)]
    /\ commitCF = EmptyCF
    /\ countCF = EmptyCF
    /\ treeCF = EmptyCF
    /\ treeItemCF = EmptyCF
    /\ phase = "tags"
    /\ cur = NoRepo
    /\ refq = <<>>
    /\ valid = <<>>
    /\ upd = UpdIdle
    /\ results = NoResults
    /\ visited = {}
    /\ fails = 0
    /\ dirty = FALSE
    /\ quiet = FALSE
    /\ sched = SchedStart
    /\ reply = NoReply

NextTags ==
    \/ TagsScan
    \/ TagsDone
    \/ EndCycle

SpecTags == InitTags /\ [][NextTags]_vars

----------------------------------------------------------------------------
(* Vocabulary of the properties *)

Success == {"same", "ok", "ok_forced"}
Failure == {"err", "err_forced"}

\* the repo id recorded for a path
IdOf(p) == repoCF[p].id

\* the ref was updated in the running (or just finished) cycle and Git has not
\* changed since
Updated(p, r) == <<p, r>> \in visited /\ ~dirty /\ p \in DOMAIN repoCF

\* the commit the reference resolves to
LiveTip(p, r) == PeelToCommit(tip[p][r])

\* the hashes stored for a ref, by sequence number, are exactly the sequence s
StoredIs(id, r, s) ==
    /\ CommitLen(countCF, id, r) = Len(s)
    /\ SeqsOf(commitCF, id, r) = 0..(Len(s) - 1)
    /\ \A k \in 1..Len(s) : commitCF[<<id, r, k - 1>>].hash = s[k]

----------------------------------------------------------------------------
(* C1: for every (repo, ref) that has a commit row, the count equals the    *)
(* number of rows and the rows sit at seq 0..count-1 without a gap, in      *)
(* every state the store goes through.                                      *)
C1_DenseSeq ==
    \A id \in IdPool : \A r \in RefNames :
        SeqsOf(commitCF, id, r) # {} =>
            SeqsOf(commitCF, id, r) = 0..(CommitLen(countCF, id, r) - 1)

\* a ref re-ingested by a forced pass after a rewrite, in a behaviour where a
\* walk failed part-way
C1_Witness ==
    /\ phase = "idle"
    /\ fails = 1
    /\ \E p \in DOMAIN repoCF : \E r \in RefNames :
          /\ results[p][r] = "ok_forced"
          /\ SeqsOf(commitCF, IdOf(p), r) = 0..1


----------------------------------------------------------------------------
(* C2: once the single-ref update of a ref has returned success, the row    *)
(* fetch_latest_one reads for the ref (seq = count-1) holds the hash of the *)
(* ref's live tip.                                                          *)
C2_LatestIsTip ==
    \A p \in Paths : \A r \in RefNames :
        (Updated(p, r) /\ results[p][r] \in Success) =>
            FetchLatestOne(commitCF, countCF, IdOf(p), r).hash = LiveTip(p, r)

\* a ref that was appended to after a push, the cycle finished
C2_Witness ==
    /\ phase = "idle"
    /\ ops = 1
    /\ \E p \in Paths : \E r \in RefNames :
          /\ Updated(p, r)
          /\ results[p][r] = "ok"
          /\ CommitLen(countCF, IdOf(p), r) >= 3

----------------------------------------------------------------------------
(* C3: after a successful update the hashes stored for a ref at seq         *)
(* 0..count-1 are exactly the commits of the rev-walk from the ref's tip,   *)
(* oldest first, each once, also when the ref was extended incrementally    *)
(* and the new history contains merges.                                     *)
C3_StoredIsWalk ==
    \A p \in Paths : \A r \in RefNames :
        (Updated(p, r) /\ results[p][r] \in Success) =>
            StoredIs(IdOf(p), r, Reverse(RevWalk(LiveTip(p, r))))

----------------------------------------------------------------------------
(* C4: when commits are added on top of the indexed tip and a cycle runs,   *)
(* the new commits are written at seq = prior count, prior count + 1, ...,  *)
(* oldest first, the count becomes the new total, and the rows below the    *)
(* prior count are left as they were.                                       *)

\* the sweep of an unforced pass that started from an indexed tip
Appending ==
    /\ phase = "reflog"
    /\ cur # NoRepo
    /\ upd.stage = "chunks"
    /\ ~upd.force
    /\ upd.latest # NoObject

\* the commits of the walk that the indexed tip does not reach, oldest first
NewCommits == SelectSeq(upd.walk, LAMBDA c : c \notin SeqRange(RevWalk(upd.latest)))

C4_FastForward ==
    [][Appending =>
         /\ \A k \in DOMAIN commitCF :
               (k[1] = cur.id /\ k[2] = Head(refq) /\ k[3] < upd.tree_len) =>
                   (k \in DOMAIN commitCF' /\ commitCF'[k] = commitCF[k])
         /\ (upd'.stage = "none" /\ results'[cur.path][Head(refq)] = "ok") =>
               /\ CommitLen(countCF', cur.id, Head(refq))
                      = upd.tree_len + Len(NewCommits)
               /\ \A j \in 1..Len(NewCommits) :
                     /\ <<cur.id, Head(refq), upd.tree_len + j - 1>> \in DOMAIN commitCF'
                     /\ commitCF'[<<cur.id, Head(refq), upd.tree_len + j - 1>>].hash
                            = NewCommits[j]]_vars

----------------------------------------------------------------------------
(* C5: when the indexed tip does not occur in the walk from the new tip, a  *)
(* single cycle drops the ref's rows and re-ingests; afterwards the count   *)
(* is the length of the new walk and seq i, from 0, holds the i-th oldest   *)
(* commit of the new walk.                                                  *)
C5_Reindexed ==
    \A p \in Paths : \A r \in RefNames :
        (Updated(p, r) /\ results[p][r] = "ok_forced") =>
            StoredIs(IdOf(p), r, Reverse(RevWalk(LiveTip(p, r))))

\* a rewritten branch re-ingested by the forced pass
C5_Witness ==
    /\ phase = "idle"
    /\ ops = 1
    /\ \E p \in Paths : \E r \in RefNames :
          /\ Updated(p, r)
          /\ results[p][r] = "ok_forced"
          /\ CommitLen(countCF, IdOf(p), r) = 2

----------------------------------------------------------------------------
(* C6: in the forced pass of a ref whose count before the drop was n, the   *)
(* re-ingested commits are keyed starting at seq n, so that no row exists   *)
(* below seq n.                                                             *)

\* the forced pass has written rows
ForcedWriting ==
    /\ phase = "reflog"
    /\ cur # NoRepo
    /\ upd.stage = "chunks"
    /\ upd.force
    /\ upd.i > 0

C6_KeyedFromOldCount ==
    ForcedWriting =>
        SeqsOf(commitCF, cur.id, Head(refq)) = upd.predrop..(upd.predrop + upd.i - 1)

(* C6 as amended: the forced pass deletes the rows and the count of the ref *)
(* and reads tree_len after the drop, so the re-ingested commits are keyed  *)
(* starting at seq 0, whatever the count before the drop was.               *)
C6_KeyedFromZero ==
    ForcedWriting =>
        /\ upd.tree_len = 0
        /\ SeqsOf(commitCF, cur.id, Head(refq)) = 0..(upd.i - 1)

\* a forced pass over a ref that had rows before the drop
C6_Witness == ForcedWriting /\ upd.predrop > 0

----------------------------------------------------------------------------
QuietRef ==
    /\ quiet
    /\ phase = "reflog"
    /\ cur # NoRepo
    /\ upd.stage # "none"
    /\ results[cur.path][Head(refq)] \in Success

----------------------------------------------------------------------------
(* C8: the forced pass reports success only when its sweep ran to the end   *)
(* and the ref is then up to date; a forced pass that fails returns an      *)
(* error for the ref.                                                       *)

\* the forced pass returns to the loop in this step
ForcedReturn ==
    /\ phase = "reflog"
    /\ cur # NoRepo
    /\ upd.force
    /\ upd'.stage = "none"

C8_ForcedResult ==
    [][ForcedReturn =>
         IF upd.stage = "chunks" /\ upd.pos >= Len(upd.walk) /\ upd.seen
         THEN /\ results'[cur.path][Head(refq)] = "ok_forced"
              /\ FetchLatestOne(commitCF', countCF', cur.id, Head(refq)).hash
                     = LiveTip(cur.path, Head(refq))
         ELSE results'[cur.path][Head(refq)] = "err_forced"]_vars

\* a forced pass has failed and the error was returned for the ref
C8_Witness ==
    \E p \in Paths : \E r \in RefNames :
        <<p, r>> \in visited /\ results[p][r] = "err_forced"

----------------------------------------------------------------------------
(* C9: when the update of one ref returns an error, the other refs of the   *)
(* repository and the refs of the other repositories are still updated in   *)
(* the same cycle and the Heads record of each repository is replaced.      *)

\* the reflog phase of the running cycle is over
ReflogOver == phase \in {"tags", "flush", "idle"} /\ ~dirty

C9_ErrorDoesNotAbort ==
    (ReflogOver /\ \E e \in visited : e[2] # "Heads" /\ results[e[1]][e[2]] \in Failure) =>
        \A p \in Paths :
            disk[p] = "ok" =>
                /\ \A k \in 1..Len(RetainedRefs(p)) : <<p, RetainedRefs(p)[k]>> \in visited
                /\ <<p, "Heads">> \in visited
                /\ p \in DOMAIN repoCF
                /\ IdOf(p) \in DOMAIN refCF
                /\ refCF[IdOf(p)] = RetainedRefs(p)

\* the first ref of the first repository failed; its second ref and the refs
\* of the second repository were updated after it
C9_Witness ==
    /\ phase = "tags"
    /\ <<"a.git", "refs/heads/main">> \in visited
    /\ results["a.git"]["refs/heads/main"] \in Failure
    /\ <<"a.git", "refs/tags/v1">> \in visited
    /\ <<"b.git", "refs/heads/main">> \in visited
    /\ <<"a.git", "Heads">> \in visited

----------------------------------------------------------------------------
(* C10: after a repository's directory is removed and one cycle has run,    *)
(* fetch_all does not list its path and no commit row and no tag row keyed  *)
(* under its repo id remains.                                               *)

\* the repo ids of the repositories fetch_all lists
ListedIds == {repoCF[p].id : p \in DOMAIN repoCF}

C10_RemovedRepoLeavesNothing ==
    (phase = "idle" /\ ~dirty) =>
        /\ \A p \in Paths : disk[p] = "gone" => p \notin DOMAIN repoCF
        /\ \A k \in DOMAIN commitCF : k[1] \in ListedIds
        /\ \A k \in DOMAIN tagCF : k[1] \in ListedIds

----------------------------------------------------------------------------
(* C11: after a cycle has deleted a repository, commit_tree(id, ref).len()  *)
(* is 0 for every ref of the repository that had indexed commits.           *)

\* open_repo deletes the repository at the head of the queue in this step
Deleting(rec) ==
    /\ phase \in {"reflog", "tags"}
    /\ cur = NoRepo
    /\ queue # <<>>
    /\ rec = Head(queue)
    /\ rec.path \in DOMAIN repoCF
    /\ rec.path \notin DOMAIN repoCF'

C11_DeletedRepoLenZero ==
    [][\A rec \in {[path |-> p, id |-> i] : p \in Paths, i \in IdPool} :
         Deleting(rec) =>
            \A r \in RefNames :
                SeqsOf(commitCF, rec.id, r) # {} => CommitLen(countCF', rec.id, r) = 0]_vars

----------------------------------------------------------------------------
(* C12: the indexer deletes a repository's rows only when opening its       *)
(* directory reports not-found; when the open fails for another reason, or  *)
(* when reading the Repository record fails, the repository row and its     *)
(* commit and tag rows are left unchanged.                                  *)

\* the commit rows and the tag rows keyed under a repo id
RowsOf(cf, id) == [k \in {x \in DOMAIN cf : x[1] = id} |-> cf[k]]

\* Repository::open returns an error for the repository at the head of the
\* queue in this step
ReadFails == phase = "meta" /\ queue # <<>> /\ fails' = fails + 1

C12_DeleteOnlyWhenNotFound ==
    [][\A p \in DOMAIN repoCF :
          /\ p \notin DOMAIN repoCF' => disk[p] = "gone"
          /\ disk[p] = "broken" =>
                /\ p \in DOMAIN repoCF' /\ repoCF'[p] = repoCF[p]
                /\ RowsOf(commitCF', IdOf(p)) = RowsOf(commitCF, IdOf(p))
                /\ RowsOf(tagCF', IdOf(p)) = RowsOf(tagCF, IdOf(p))
          /\ (ReadFails /\ p = Head(queue)) =>
                /\ repoCF' = repoCF
                /\ commitCF' = commitCF
                /\ tagCF' = tagCF]_vars

\* a cycle has passed over an indexed repository whose directory does not
\* open, and another has skipped a repository whose record could not be read
C12_Witness ==
    /\ phase = "tags"
    /\ queue = <<>>
    /\ \E p \in DOMAIN repoCF :
          /\ disk[p] = "broken"
          /\ RowsOf(commitCF, IdOf(p)) # EmptyCF
          /\ RowsOf(tagCF, IdOf(p)) # EmptyCF

----------------------------------------------------------------------------
(* C13: the tree_id of a commit row depends only on the breadth-first       *)
(* sequence of (path, mode) pairs of the commit's tree: commits whose trees *)
(* have the same (path, mode) entries get equal tree_id, whatever the blob  *)
(* contents, the object ids and the repository.                             *)

\* two Git trees with the same (path, mode) entries in the same order
SameShape(t, u) ==
    /\ Len(TreeEntries(t)) = Len(TreeEntries(u))
    /\ \A k \in 1..Len(TreeEntries(t)) :
          /\ TreeEntries(t)[k].path = TreeEntries(u)[k].path
          /\ TreeEntries(t)[k].mode = TreeEntries(u)[k].mode

C13_TreeIdFromShape ==
    \A k1 \in DOMAIN commitCF : \A k2 \in DOMAIN commitCF :
        SameShape(TreeOf(commitCF[k1].hash), TreeOf(commitCF[k2].hash))
            => commitCF[k1].tree_id = commitCF[k2].tree_id

\* rows of two repositories for commits 1 and 5, whose trees differ in the
\* content of README only and are different Git objects
C13_Witness ==
    \E k1 \in DOMAIN commitCF : \E k2 \in DOMAIN commitCF :
        /\ k1[1] # k2[1]
        /\ commitCF[k1].hash = 1 /\ commitCF[k2].hash = 5
        /\ TreeOf(1) # TreeOf(5)
        /\ commitCF[k1].tree_id = commitCF[k2].tree_id

----------------------------------------------------------------------------
(* C14: when two repositories each hold a commit whose tree is a single     *)
(* file with the same path and mode, the tree-item family contains exactly  *)
(* one row whose key starts with the shared digest.                         *)

\* the keys of the tree-item family that start with the digest
KeysUnder(items, d) == {k \in DOMAIN items : k[1] = d}

\* two repositories hold a commit row whose tree is the single file README
SingleFileInTwoRepos ==
    \E k1 \in DOMAIN commitCF : \E k2 \in DOMAIN commitCF :
        /\ k1[1] # k2[1]
        /\ Len(TreeEntries(TreeOf(commitCF[k1].hash))) = 1
        /\ Len(TreeEntries(TreeOf(commitCF[k2].hash))) = 1

C14_OneRowUnderDigest ==
    SingleFileInTwoRepos =>
        Cardinality(KeysUnder(treeItemCF, Digest("t0"))) = 1

----------------------------------------------------------------------------
(* C15: once a row exists in the store under digest d, a later index_tree   *)
(* call that computes d writes no TreeItem row and no SortedTree row under  *)
(* d: the rows keep their keys and values, also when the later tree pins    *)
(* another submodule commit; the tree-family mapping tree oid -> d is       *)
(* written.                                                                 *)

\* the trees index_tree is called for in this step of the sweep
IndexedNow ==
    IF phase = "reflog" /\ cur # NoRepo /\ upd.stage = "chunks" /\ upd'.stage = "chunks"
    THEN {TreeOf(commitCF'[k].hash) :
             k \in {x \in DOMAIN commitCF' : x \notin DOMAIN commitCF}}
    ELSE {}

C15_IndexedOnce ==
    [][/\ \A k \in DOMAIN treeItemCF :
             /\ KeysUnder(treeItemCF', k[1]) = KeysUnder(treeItemCF, k[1])
             /\ treeItemCF'[k] = treeItemCF[k]
       /\ \A t \in IndexedNow :
             /\ t \in DOMAIN treeCF'
             /\ treeCF'[t].indexed_tree_id = Digest(t)]_vars

\* the tree of commit 3 was indexed after the tree of commit 2, which has the
\* same digest and pins another submodule commit: the row written first stays
C15_Witness ==
    /\ "t1" \in DOMAIN treeCF
    /\ "t2" \in DOMAIN treeCF
    /\ <<Digest("t1"), 0, "vendor">> \in DOMAIN treeItemCF
    /\ treeItemCF[<<Digest("t1"), 0, "vendor">>].oid = 21

----------------------------------------------------------------------------
(* C16: for every digest and every directory path p indexed under it,       *)
(* find_prefix(digest, Some(p)) returns exactly the entries whose path is p *)
(* followed by '/' and one further segment: no transitive descendant, no    *)
(* entry of a sibling whose name starts with p, no entry of another digest; *)
(* with the empty path it returns exactly the root's direct children.       *)

\* the path with bytes b is p followed by '/' and one segment, or a single
\* segment when p is the root
ChildOf(b, pb) ==
    IF pb = <<>> THEN b # <<>> /\ SlashCount(b) = 0
    ELSE /\ StartsWith(b, pb \o <<47>>)
         /\ Len(b) > Len(pb) + 1
         /\ SlashCount(SubSeq(b, Len(pb) + 2, Len(b))) = 0

\* the TreeItem rows stored under a digest
ItemKeys(items, d) == {k \in DOMAIN items : Len(k) = 3 /\ k[1] = d}

\* the directories indexed under a digest, and the root
IndexedDirs(items, d) ==
    {k[3] : k \in {x \in ItemKeys(items, d) : items[x].kind = "Tree"}} \cup {""}

DirectChildren(items, d, p) ==
    {<<k[3], items[k]>> :
        k \in {x \in ItemKeys(items, d) : ChildOf(PathBytes(x[3]), PathBytes(p))}}

\* the digests that have rows in the tree-item family
StoredDigests == {k[1] : k \in DOMAIN treeItemCF}

\* every lookup of an indexed directory yields its direct children, on a
\* target of either byte order
ChildrenFound(items) ==
    \A e \in Endians : \A d \in {k[1] : k \in DOMAIN items} :
        \A p \in IndexedDirs(items, d) :
            FindPrefix(items, d, p, e)
                = [panic |-> FALSE, entries |-> DirectChildren(items, d, p)]

\* the family is empty at first and only grows by writes, so the lookups are
\* right in every state if they are right after every write
C16_DirectChildren ==
    [][treeItemCF' # treeItemCF => ChildrenFound(treeItemCF')]_vars

\* the tree with src, srcs and src/lib is indexed next to two other digests,
\* and the lookup of src yields its two children
C16_Witness ==
    /\ Cardinality(StoredDigests) = 3
    /\ <<Digest("t3"), 2, "src/lib/x">> \in DOMAIN treeItemCF
    /\ <<Digest("t3"), 1, "srcs/a">> \in DOMAIN treeItemCF
    /\ Cardinality(FindPrefix(treeItemCF, Digest("t3"), "src", "little").entries) = 2
    /\ Cardinality(FindPrefix(treeItemCF, Digest("t3"), "", "big").entries) = 3

----------------------------------------------------------------------------
(* C17: find_prefix(digest, None) returns every TreeItem entry stored under *)
(* the digest, at every depth, and nothing else.                            *)

\* the (path, item) pairs of all TreeItem rows under a digest
AllEntries(items, d) == {<<k[3], items[k]>> : k \in ItemKeys(items, d)}

\* the lookup without a prefix yields all entries, on a target of either byte
\* order
AllFound(items) ==
    \A e \in Endians : \A d \in {k[1] : k \in DOMAIN items} :
        FindPrefix(items, d, NoPrefix, e)
            = [panic |-> FALSE, entries |-> AllEntries(items, d)]

C17_AllEntriesOfDigest ==
    [][treeItemCF' # treeItemCF => AllFound(treeItemCF')]_vars


----------------------------------------------------------------------------
(* open_db and the schema version *)

HandleReturned == phase = "idle"

\* C18: whenever open_db has returned a handle, the default family holds
\* "schema_version" with the compiled SCHEMA_VERSION, whether the key was
\* absent, equal or different when the process started.
C18_VersionStoredOnReturn ==
    HandleReturned =>
        SchemaKey \in DOMAIN defaultCF /\ defaultCF[SchemaKey] = SCHEMA_VERSION

\* a handle returned over a store that holds nothing but the version: a fresh
\* store, or one that was regenerated
C18_Witness ==
    /\ HandleReturned
    /\ defaultCF = Versioned
    /\ repoCF = EmptyCF /\ commitCF = EmptyCF /\ countCF = EmptyCF
    /\ tagCF = EmptyCF /\ refCF = EmptyCF /\ treeCF = EmptyCF
    /\ treeItemCF = EmptyCF
    /\ fails = 0

\* the persisted version is present and is not the compiled one
Stale == SchemaKey \in DOMAIN defaultCF /\ defaultCF[SchemaKey] # SCHEMA_VERSION

\* the step in which DB::destroy acts
Destroyed == phase = "regen" /\ phase' = "closed"

Families == <<defaultCF, repoCF, commitCF, countCF, tagCF, refCF, treeCF, treeItemCF>>

\* every row of the family is still there with the value it had
Kept(cf, after) == \A k \in DOMAIN cf : k \in DOMAIN after /\ after[k] = cf[k]

RowsKept == \A i \in 1..Len(Families) : Kept(Families[i], Families'[i])

\* C19: open_db destroys the store exactly when a persisted version is present
\* and differs from the compiled one: the destroy happens only then and leaves
\* no row of any family, no handle is returned over a differing version, and
\* no other step removes or changes a stored row.
C19_DestroyExactlyWhenStale ==
    [][/\ Destroyed => Stale
       /\ Destroyed => \A i \in 1..Len(Families) : Families'[i] = EmptyCF
       /\ ~RowsKept => Destroyed
       /\ (HandleReturned' /\ ~HandleReturned) => ~Stale]_vars

\* a handle returned with the rows of the earlier run in place
C19_Witness ==
    /\ HandleReturned
    /\ repoCF = PriorRepo
    /\ commitCF = PriorCommits
    /\ countCF = PriorCount
    /\ tagCF = PriorTags
    /\ refCF = PriorHeads
    /\ treeCF = PriorTrees
    /\ treeItemCF = PriorTreeItems


----------------------------------------------------------------------------
(* The Heads record *)

\* the references of the repository Git holds whose category is local branch
\* or tag
EnumeratedHeads(p) ==
    {r \in RefNames : tip[p][r] # NoObject /\ Category(r) \in {"LocalBranch", "Tag"}}

\* the list holds exactly the names, each once
ListsExactly(heads, names) ==
    SeqRange(heads) = names /\ Len(heads) = Cardinality(names)

\* the step that ends the reference loop of a repository
RefPhaseEnds == InRefLoop /\ cur' = NoRepo

\* C20: when the reference phase of a repository ends, its Heads record lists
\* exactly the local branches and tags Git holds in that cycle, so a branch
\* that disappeared is no longer in it; and the reference family changes only
\* by one put of a complete list, so a reader meets the previous list or the
\* new one.
C20_HeadsReplaced ==
    [][/\ RefPhaseEnds =>
             /\ cur.id \in DOMAIN refCF'
             /\ ListsExactly(refCF'[cur.id], EnumeratedHeads(cur.path))
       /\ refCF' # refCF =>
             \E p \in DOMAIN repoCF :
                 /\ DOMAIN refCF' = DOMAIN refCF \cup {repoCF[p].id}
                 /\ \A id \in DOMAIN refCF : id # repoCF[p].id => refCF'[id] = refCF[id]
                 /\ ListsExactly(refCF'[repoCF[p].id], EnumeratedHeads(p))]_vars

\* the branch was indexed, then deleted from Git, and the Heads record written
\* in the running cycle no longer lists it
C20_Witness ==
    \E p \in DOMAIN repoCF :
        /\ <<p, "Heads">> \in visited
        /\ SeqsOf(commitCF, repoCF[p].id, "refs/heads/main") # {}
        /\ tip[p]["refs/heads/main"] = NoObject
        /\ repoCF[p].id \in DOMAIN refCF
        /\ refCF[repoCF[p].id] = <<"refs/tags/v1">>


----------------------------------------------------------------------------
(* The tag phase *)

\* the tag references of Git that peel to a tag object
AnnotatedTags(p) == {r \in GitTags(p) : PeelsToTag(tip[p][r])}

\* the step in which tag_index_scan returns Ok for the repository at the head
\* of the queue
ScanCompletes ==
    /\ InTagLoop
    /\ disk[Head(queue).path] = "ok"
    /\ queue' = Tail(queue)
    /\ fails' = fails

\* C21: after a tag scan of a repository that completes without error, the
\* names in the tag family under its id are exactly the tag references of Git
\* that peel to a tag object.
C21_IndexedTagsAreAnnotated ==
    [][ScanCompletes =>
          IndexedTags(tagCF', Head(queue).id) = AnnotatedTags(Head(queue).path)]_vars


----------------------------------------------------------------------------
(* drop_commits and the other references *)

DropStep == phase = "drop" /\ phase' = "dropped"

\* the rows of the family whose key is not of the pair
OthersOf(cf, id, ref) ==
    [k \in {x \in DOMAIN cf : ~(x[1] = id /\ x[2] = ref)} |-> cf[k]]

\* drop_commits removed the rows and the count of the pair and nothing else
DroppedExactly ==
    /\ commitCF' = OthersOf(commitCF, cur.id, Head(refq))
    /\ countCF' = OthersOf(countCF, cur.id, Head(refq))

\* C22 as stated: drop_commits deletes exactly the rows and the count of its
\* reference, whatever bytes the reference names are made of.
C22_DropsOnlyItsRef == [][DropStep => DroppedExactly]_vars

\* the name holds no NUL byte
NulFree(ref) == \A i \in 1..Len(RefBytes(ref)) : RefBytes(ref)[i] # 0

\* C22 as amended: drop_commits deletes exactly the rows and the count of its
\* reference when no reference name with rows in the store holds a NUL byte,
\* also when the name is a byte-prefix of another reference's name.
C22_DropsOnlyItsRefNulFree ==
    [][(DropStep /\ \A k \in DOMAIN commitCF : NulFree(k[2])) => DroppedExactly]_vars

\* "a" had a row and was dropped while "ab" and "a<01>" of the same
\* repository and "a" of the other keep theirs
C22_Witness ==
    /\ phase = "dropped"
    /\ Head(refq) = "a"
    /\ upd.predrop > 0
    /\ SeqsOf(commitCF, cur.id, "a") = {}
    /\ <<cur.id, "ab", 0>> \in DOMAIN commitCF
    /\ <<cur.id, "a<01>", 0>> \in DOMAIN commitCF
    /\ \E id \in IdPool \ {cur.id} : <<id, "a", 0>> \in DOMAIN commitCF
    /\ \A k \in DOMAIN commitCF : NulFree(k[2])


----------------------------------------------------------------------------
(* Replay after a crash *)

\* the first cycle since the start of the process has written all it writes
FirstCycleOver == phase = "flush" /\ ~quiet

\* the count is the number of rows, the rows are dense from 0, and the row at
\* count - 1 is the live tip
Replayed(p, r) ==
    LET id == repoCF[p].id
        n  == CommitLen(countCF, id, r)
    IN  /\ Cardinality(SeqsOf(commitCF, id, r)) = n
        /\ SeqsOf(commitCF, id, r) = 0..(n - 1)
        /\ FetchLatestOne(commitCF, countCF, id, r).hash = LiveTip(p, r)

\* C23: whatever batches written without WAL each family lost in the crash,
\* the first cycle after the restart leaves every reference with a count equal
\* to its number of commit rows, rows dense from 0, and the live tip at
\* count - 1.
C23_ReplayRestoresRefs ==
    FirstCycleOver =>
        \A p \in DOMAIN repoCF : \A r \in RefNames :
            tip[p][r] # NoObject => Replayed(p, r)


----------------------------------------------------------------------------
(* Scheduling of the cycles *)

\* C24: at no time are two cycles in flight, whatever the interleaving of timer
\* expiries, SIGHUPs and cycle durations: a wake-up that arrives during a
\* cycle waits in the channel until the worker has finished it.
C24_OneCycleInFlight == sched.inflight <= 1

\* a SIGHUP arrived during the running cycle and its wake-up is buffered
C24_Witness ==
    /\ phase = "cycle"
    /\ sched.inflight = 1
    /\ sched.owed = "cycle"
    /\ sched.chan > 0

\* C25: a SIGHUP received while the worker thread is alive and no shutdown has
\* been requested is followed by the start of a cycle after it, unless a
\* shutdown is requested or the worker dies first; also when the signal
\* arrives during a running cycle.
C25_SighupStartsCycle ==
    (sched.owed # "no") ~> (sched.owed = "no" \/ sched.stage # "up" \/ ~WorkerAlive)

\* a cycle has started after a SIGHUP that arrived during the cycle before it
C25_Witness ==
    /\ sched.served = "cycle"
    /\ sched.stage = "up"
    /\ phase = "cycle"

\* C26: after the shutdown signal no further cycle starts, and the process
\* does not exit while a cycle is in flight.
C26_ShutdownWaitsForCycle ==
    [][/\ (sched.stage # "exited" /\ sched'.stage = "exited") => phase # "cycle"
       /\ (sched.stage # "up" /\ phase' = "cycle") => phase = "cycle"]_vars


----------------------------------------------------------------------------
(* fetch_latest *)

\* the rows of the reference at seq hi - 1 down to lo, those that exist
RowsDownFrom(commits, id, ref, lo, hi) ==
    LET seqs == {q \in lo..(hi - 1) : <<id, ref, q>> \in DOMAIN commits}
        nth(i) == CHOOSE q \in seqs : Cardinality({x \in seqs : x > q}) = i - 1
    IN  [i \in 1..Cardinality(seqs) |-> commits[<<id, ref, nth(i)>>]]

\* the answer is the window of the request
WindowAnswered ==
    LET n  == CommitLen(countCF, reply.id, reply.ref)
        hi == IF n > reply.offset THEN n - reply.offset ELSE 0
        lo == IF hi > reply.amount THEN hi - reply.amount ELSE 0
    IN  /\ reply.rows = RowsDownFrom(commitCF, reply.id, reply.ref, lo, hi)
        /\ Len(reply.rows) <= reply.amount
        /\ reply.offset >= n => reply.rows = <<>>

\* C27: fetch_latest(amount, offset) on a ref whose count is n returns, newest
\* first, exactly the commits at seq in [max(0, n - offset - amount),
\* max(0, n - offset)): at most amount of them, none when offset >= n, and none
\* of another reference or repository.
C27_FetchLatestWindow == reply # NoReply => WindowAnswered

\* every reference of both repositories has commits, and the request asked for
\* a window in the middle of a reference with four
C27_Witness ==
    /\ \A q \in LogPairs : SeqsOf(commitCF, q[1], q[2]) # {}
    /\ reply.ref = "refs/heads/main"
    /\ reply.amount = 2
    /\ reply.offset = 1
    /\ CommitLen(countCF, reply.id, reply.ref) = 4
    /\ reply.rows = <<commitCF[<<reply.id, reply.ref, 2>>],
                      commitCF[<<reply.id, reply.ref, 1>>]>>


----------------------------------------------------------------------------
(* A failure in the tag scan *)

\* the step in which tag_index_update fails for a tag of the repository at the
\* head of the queue
ScanFails ==
    /\ InTagLoop
    /\ disk[Head(queue).path] = "ok"
    /\ fails' = fails + 1

\* the tags of Git not indexed yet that peel to a tag object
MissingAnnotated(p, id) == AnnotatedTags(p) \ IndexedTags(tagCF, id)

\* the indexed names Git no longer has
StaleTags(p, id) == IndexedTags(tagCF, id) \ GitTags(p)

\* C28: a failure while indexing one newly discovered tag skips only that tag:
\* of the missing annotated tags at most the failing one is left out, and the
\* stale names are removed by the same scan.
C28_FailureSkipsOneTag ==
    [][ScanFails =>
          LET p  == Head(queue).path
              id == Head(queue).id
          IN  /\ Cardinality(MissingAnnotated(p, id) \ IndexedTags(tagCF', id)) <= 1
              /\ StaleTags(p, id) \cap IndexedTags(tagCF', id) = {}]_vars


----------------------------------------------------------------------------
(* What a reader sees between the indexer's writes *)

\* fetch_latest_one returns a row for every ref whose count is positive
LatestRowPresent(commits, counts) ==
    \A key \in DOMAIN counts :
        counts[key] > 0 =>
            FetchLatestOne(commits, counts, key[1], key[2]) # NoCommitRow

\* C29: a ref whose count is positive has the commit row at seq count - 1 in
\* every state a reader can observe; in particular the first write of a
\* force-reindex, taken from a store in which that holds, leaves a store in
\* which it holds.
C29_PositiveCountHasLatestRow ==
    [][BranchDropRange /\ LatestRowPresent(commitCF, countCF)
          => LatestRowPresent(commitCF', countCF')]_vars


----------------------------------------------------------------------------
(* The end key of ArchivedRepository::delete *)

\* the step in which open_repo finds the directory gone and calls delete on
\* the repository at the head of the queue
DeleteCalled ==
    /\ InRepoLoop \/ InTagLoop
    /\ disk[Head(queue).path] = "gone"
    /\ queue' = Tail(queue) \/ phase' = "crashed"

\* neither the path nor a commit row nor a tag row of the id is in the store
RepoRemoved(repos, commits, tags, rec) ==
    /\ rec.path \notin DOMAIN repos
    /\ \A k \in DOMAIN commits : k[1] # rec.id
    /\ \A k \in DOMAIN tags : k[1] # rec.id

\* C30: for every id, also one whose last big-endian byte is 0xFF, the end key
\* of the deletion lies above the start key, the addition does not panic, and
\* the deletion removes the repository row and every commit and tag row of
\* the id.
C30_DeleteEndKeyAboveStart ==
    [][DeleteCalled =>
          /\ LexLess(BE8(Head(queue).id), BumpLast(BE8(Head(queue).id)))
          /\ phase' # "crashed"
          /\ RepoRemoved(repoCF', commitCF', tagCF', Head(queue))]_vars

====
